---------------------------- MODULE Spec2Model ----------------------------
(***************************************************************************)
(* A model of the k8s-node-tagger controller (controller.go).              *)
(*                                                                         *)
(* Strings are sequences of one-character strings, so that the string      *)
(* functions of the program (ToLower, Replace, TrimRight, Split, slicing)   *)
(* are computed on their characters.  Go maps are functions whose DOMAIN   *)
(* is the set of keys present; a nil map and an empty map are both the     *)
(* function with the empty domain.                                         *)
(***************************************************************************)
EXTENDS Integers, Sequences, FiniteSets, TLC

VARIABLES
    cfg,         \* the NodeLabelController fields Cloud, Labels, Annotations
    node,        \* the cluster's Node object of each name, or Nil
    rv,          \* the cluster's last ResourceVersion
    queue,       \* names the event filter admitted, waiting for Reconcile
    ec2Tags,     \* EC2: the tags of each instance id
    gceInst,     \* GCE: Labels and LabelFingerprint of each instance
    pass,        \* each worker's Reconcile invocation
    settled,     \* names whose last pass succeeded, nothing changed since
    call         \* a direct call of one of the pure functions

sysVars == <<cfg, node, rv, queue, ec2Tags, gceInst, pass, settled>>
vars == <<cfg, node, rv, queue, ec2Tags, gceInst, pass, settled, call>>

---------------------------------------------------------------------------
(* Bounds of the model.                                                    *)

\* node writes (each takes a new ResourceVersion) the cluster makes
MaxRV == 2

\* GCP's limit on the length of a label key and of a label value
MaxGCPLabelLen == 63

---------------------------------------------------------------------------
(* Strings and maps.                                                       *)

UpperChars == <<"A","B","C","D","E","F","G","H","I","J","K","L","M",
                "N","O","P","Q","R","S","T","U","V","W","X","Y","Z">>
LowerChars == <<"a","b","c","d","e","f","g","h","i","j","k","l","m",
                "n","o","p","q","r","s","t","u","v","w","x","y","z">>

\* unicode.ToLower on one ASCII character
LowerChar(c) ==
    IF \E i \in 1..Len(UpperChars) : UpperChars[i] = c
    THEN LowerChars[CHOOSE i \in 1..Len(UpperChars) : UpperChars[i] = c]
    ELSE c

\* strings.ToLower
ToLower(s) == [i \in 1..Len(s) |-> LowerChar(s[i])]

\* strings.NewReplacer("/", "_", ".", "-").Replace
ReplaceChar(c) == IF c = "/" THEN "_" ELSE IF c = "." THEN "-" ELSE c
ReplaceDisallowed(s) == [i \in 1..Len(s) |-> ReplaceChar(s[i])]

\* strings.TrimRight(s, cutset)
RECURSIVE TrimRight(_, _)
TrimRight(s, cutset) ==
    IF Len(s) > 0 /\ s[Len(s)] \in cutset
    THEN TrimRight(SubSeq(s, 1, Len(s) - 1), cutset)
    ELSE s

\* s[:n]
Prefix(s, n) == SubSeq(s, 1, n)

\* strings.HasPrefix and strings.TrimPrefix
HasPrefix(s, p) == Len(s) >= Len(p) /\ SubSeq(s, 1, Len(p)) = p
TrimPrefix(s, p) == IF HasPrefix(s, p) THEN SubSeq(s, Len(p) + 1, Len(s)) ELSE s

\* strings.LastIndexByte(s, c), 1-based; 0 when c does not occur
RECURSIVE LastIndex(_, _)
LastIndex(s, c) ==
    IF Len(s) = 0 THEN 0
    ELSE IF s[Len(s)] = c THEN Len(s)
    ELSE LastIndex(SubSeq(s, 1, Len(s) - 1), c)

\* strings.Index(s, c), 1-based; 0 when c does not occur
FirstIndex(s, c) ==
    IF \E i \in 1..Len(s) : s[i] = c
    THEN CHOOSE i \in 1..Len(s) : s[i] = c /\ \A j \in 1..(i - 1) : s[j] # c
    ELSE 0

\* strings.Split(s, sep) for a one-character sep: never empty, "" gives [""]
RECURSIVE Split(_, _)
Split(s, sep) ==
    LET i == FirstIndex(s, sep)
    IN  IF i = 0 THEN <<s>>
        ELSE <<SubSeq(s, 1, i - 1)>> \o Split(SubSeq(s, i + 1, Len(s)), sep)

\* path.Base
PathBase(p) ==
    IF p = <<>> THEN <<".">>
    ELSE LET t == TrimRight(p, {"/"})
             i == LastIndex(t, "/")
             b == IF i > 0 THEN SubSeq(t, i + 1, Len(t)) ELSE t
         IN  IF b = <<>> THEN <<"/">> ELSE b

EmptyMap == <<>>
MapSet(m, k, v) == [x \in (DOMAIN m) \cup {k} |-> IF x = k THEN v ELSE m[x]]
MapDelete(m, k) == [x \in (DOMAIN m) \ {k} |-> m[x]]
Range(s) == {s[i] : i \in 1..Len(s)}

---------------------------------------------------------------------------
(* Key and value sanitizing, provider id parsing.                          *)

\* as sanitizeKeyForGCP, cutting to 63 characters before the trailing '-' and
\* '_' are removed
sanitizeKeyCutFirst(key) ==
    LET k1 == ToLower(key)
        k2 == ReplaceDisallowed(k1)
        k3 == IF Len(k2) > MaxGCPLabelLen THEN Prefix(k2, MaxGCPLabelLen) ELSE k2
    IN  TrimRight(k3, {"-", "_"})

sanitizeKeyForGCP(key) ==
    LET k1 == ToLower(key)
        k2 == ReplaceDisallowed(k1)
        k3 == TrimRight(k2, {"-", "_"})
    IN  IF Len(k3) > MaxGCPLabelLen THEN Prefix(k3, MaxGCPLabelLen) ELSE k3

\* as sanitizeValueForGCP, lowercasing the value
sanitizeValueLowercased(value) ==
    IF Len(value) > MaxGCPLabelLen
    THEN Prefix(ToLower(value), MaxGCPLabelLen) ELSE ToLower(value)

sanitizeValueForGCP(value) ==
    IF Len(value) > MaxGCPLabelLen THEN Prefix(value, MaxGCPLabelLen) ELSE value

GcePrefix == <<"g","c","e",":","/","/">>

\* as parseGCPProviderID, accepting three segments only
parseGCPProviderIDThreeOnly(providerID) ==
    IF ~HasPrefix(providerID, GcePrefix)
    THEN [ok |-> FALSE, project |-> <<>>, zone |-> <<>>, name |-> <<>>]
    ELSE LET parts == Split(TrimPrefix(providerID, GcePrefix), "/")
         IN  IF Len(parts) # 3
             THEN [ok |-> FALSE, project |-> <<>>, zone |-> <<>>, name |-> <<>>]
             ELSE [ok |-> TRUE, project |-> parts[1], zone |-> parts[2],
                   name |-> parts[3]]

parseGCPProviderID(providerID) ==
    IF ~HasPrefix(providerID, GcePrefix)
    THEN [ok |-> FALSE, project |-> <<>>, zone |-> <<>>, name |-> <<>>]
    ELSE LET parts == Split(TrimPrefix(providerID, GcePrefix), "/")
         IN  IF Len(parts) < 3
             THEN [ok |-> FALSE, project |-> <<>>, zone |-> <<>>, name |-> <<>>]
             ELSE [ok |-> TRUE, project |-> parts[1], zone |-> parts[2],
                   name |-> parts[3]]

---------------------------------------------------------------------------
(* The event filter.                                                       *)

\* a nil *corev1.Node
Nil == [IsNil |-> TRUE]

\* as monitoredChanged, comparing the values a lookup returns only: a
\* missing key reads as the empty string
RECURSIVE monitoredChangedByValue(_, _, _, _)
monitoredChangedByValue(keys, i, oldMap, newMap) ==
    IF i > Len(keys) THEN FALSE
    ELSE LET k == keys[i]
             newVal == IF k \in DOMAIN newMap THEN newMap[k] ELSE <<>>
             oldVal == IF k \in DOMAIN oldMap THEN oldMap[k] ELSE <<>>
         IN  IF newVal # oldVal THEN TRUE
             ELSE monitoredChangedByValue(keys, i + 1, oldMap, newMap)

\* one range loop of shouldProcessNodeUpdate, from the i-th monitored key on
RECURSIVE monitoredChanged(_, _, _, _)
monitoredChanged(keys, i, oldMap, newMap) ==
    IF i > Len(keys) THEN FALSE
    ELSE LET k == keys[i]
             newExists == k \in DOMAIN newMap
             oldExists == k \in DOMAIN oldMap
         IN  IF newExists # oldExists \/ (newExists /\ newMap[k] # oldMap[k])
             THEN TRUE
             ELSE monitoredChanged(keys, i + 1, oldMap, newMap)

\* as shouldProcessNodeUpdate, true also when the provider id changed
shouldProcessNodeUpdateOrProviderID(oldNode, newNode, monitoredLabels, monitoredAnnotations) ==
    IF oldNode = Nil \/ newNode = Nil THEN FALSE
    ELSE IF monitoredChanged(monitoredLabels, 1, oldNode.Labels, newNode.Labels)
         THEN TRUE
         ELSE IF monitoredChanged(monitoredAnnotations, 1,
                                  oldNode.Annotations, newNode.Annotations)
         THEN TRUE
         ELSE oldNode.ProviderID # newNode.ProviderID

shouldProcessNodeUpdate(oldNode, newNode, monitoredLabels, monitoredAnnotations) ==
    IF oldNode = Nil \/ newNode = Nil THEN FALSE
    ELSE IF monitoredChanged(monitoredLabels, 1, oldNode.Labels, newNode.Labels)
         THEN TRUE
         ELSE monitoredChanged(monitoredAnnotations, 1,
                               oldNode.Annotations, newNode.Annotations)

\* one range loop of shouldProcessNodeCreate, from the i-th monitored key on
RECURSIVE hasMonitored(_, _, _)
hasMonitored(keys, i, m) ==
    IF i > Len(keys) THEN FALSE
    ELSE IF keys[i] \in DOMAIN m THEN TRUE
    ELSE hasMonitored(keys, i + 1, m)

\* as shouldProcessNodeCreate, without the loop over the annotations
shouldProcessNodeCreateLabelsOnly(n, monitoredLabels, monitoredAnnotations) ==
    IF n = Nil THEN FALSE
    ELSE hasMonitored(monitoredLabels, 1, n.Labels)

shouldProcessNodeCreate(n, monitoredLabels, monitoredAnnotations) ==
    IF n = Nil THEN FALSE
    ELSE IF hasMonitored(monitoredLabels, 1, n.Labels) THEN TRUE
    ELSE hasMonitored(monitoredAnnotations, 1, n.Annotations)

\* as UpdateFunc, without the comparison of the ResourceVersions
UpdateFuncAnyVersion(oldNode, newNode, r) ==
    IF shouldProcessNodeUpdate(oldNode, newNode, r.Labels, r.Annotations)
    THEN TRUE
    ELSE shouldProcessNodeCreate(newNode, r.Labels, r.Annotations)

UpdateFunc(oldNode, newNode, r) ==
    IF shouldProcessNodeUpdate(oldNode, newNode, r.Labels, r.Annotations)
    THEN TRUE
    ELSE IF oldNode.ResourceVersion = newNode.ResourceVersion
         THEN shouldProcessNodeCreate(newNode, r.Labels, r.Annotations)
         ELSE FALSE

CreateFunc(n, r) == shouldProcessNodeCreate(n, r.Labels, r.Annotations)

\* as DeleteFunc, deciding as CreateFunc does
DeleteFuncAsCreate(n, r) == shouldProcessNodeCreate(n, r.Labels, r.Annotations)

DeleteFunc(n, r) == FALSE

GenericFunc(n, r) == FALSE

---------------------------------------------------------------------------
(* The configurations, nodes and remote states the model ranges over.      *)

kEnv == <<"e","n","v">>
kEnvUpper == <<"E","n","v">>
kCostCenter == <<"c","c">>
vProd == <<"p">>
vStaging == <<"s">>

NodeNames == {"node1"}
\* the reconcile workers (MaxConcurrentReconciles is left at its default)
Workers == {"w1"}

\* spec.providerID: not yet assigned, as the AWS and as the GCE cloud
\* provider writes it
NoProviderID == <<>>
AwsProviderID == <<"a","w","s",":","/","/","/","z","/","i">>
GceProviderID == <<"g","c","e",":","/","/","p","/","z","/","i">>
\* the provider ids of the model: on GCP also one of the wrong cloud
ProviderIDs(cloud) ==
    IF cloud = "aws" THEN {NoProviderID, AwsProviderID}
    ELSE {NoProviderID, GceProviderID, AwsProviderID}

Ec2Instances == {<<"i">>}
GceInstances == {<< <<"p">>, <<"z">>, <<"i">> >>}

\* the controller configurations under which the whole controller runs:
\* one monitored label, one monitored annotation
Configs ==
    { [Cloud |-> "aws", Labels |-> <<kEnv>>, Annotations |-> <<>>],
      [Cloud |-> "gcp", Labels |-> <<>>,     Annotations |-> <<kEnv>>] }

\* the controller configurations under which the passes over one node are
\* examined: a key monitored as label and as annotation, and two monitored
\* keys with the same sanitized form
SyncConfigs ==
    { [Cloud |-> "aws", Labels |-> <<kEnv>>,            Annotations |-> <<kEnv>>],
      [Cloud |-> "aws", Labels |-> <<kEnvUpper, kEnv>>, Annotations |-> <<>>],
      [Cloud |-> "gcp", Labels |-> <<kEnv>>,            Annotations |-> <<kEnv>>],
      [Cloud |-> "gcp", Labels |-> <<kEnvUpper, kEnv>>, Annotations |-> <<>>] }

\* the values a key takes in the model: cost-center has one, the others two
ValuesOf(k) == IF k = kCostCenter THEN {vProd} ELSE {vProd, vStaging}

\* all maps with keys among ks
MapsOver(ks) ==
    UNION { {m \in [d -> {vProd, vStaging}] : \A k \in d : m[k] \in ValuesOf(k)}
            : d \in SUBSET ks }

NodeLabelKeys(r) == Range(r.Labels) \cup {kCostCenter}
NodeAnnotationKeys(r) == Range(r.Annotations)
Ec2TagKeys(r) == Range(r.Labels) \cup Range(r.Annotations) \cup {kCostCenter}
GceLabelKeys(r) == {sanitizeKeyForGCP(k) : k \in Ec2TagKeys(r)}

---------------------------------------------------------------------------
(* The remote.                                                             *)

\* GCE's labelFingerprint: a hash of the labels' contents
Fingerprint(labels) == [hash |-> labels]

GceInstance(labels) ==
    [Labels |-> labels, LabelFingerprint |-> Fingerprint(labels)]

\* a remote call as the remote saw it
Call(op, target, arg, ok) ==
    [op |-> op, target |-> target, arg |-> arg, ok |-> ok]

NoCall == [fn |-> "none"]

IdlePass ==
    [pc |-> "idle", name |-> "", get |-> "none", nodeRead |-> Nil,
     providerID |-> <<>>, tagsToSync |-> EmptyMap, instance |-> <<>>,
     fetched |-> EmptyMap, fingerprint |-> Fingerprint(EmptyMap),
     currentTags |-> EmptyMap, toAdd |-> {}, toDelete |-> {},
     newLabels |-> EmptyMap, calls |-> <<>>, result |-> "none",
     remoteBefore |-> EmptyMap, undisturbed |-> TRUE, nodeSame |-> TRUE,
     fromSettled |-> FALSE, cancelled |-> FALSE, callsAtCancel |-> 0,
     overlapped |-> FALSE]

\* an instance without tags, and one with a stale monitored tag and a tag
\* of somebody else
StaleRemote == [k \in {kEnv, kCostCenter} |-> IF k = kEnv THEN vStaging ELSE vProd]
FewRemotes == {EmptyMap, StaleRemote}

\* the tags or labels an instance may have when the controller starts: any
\* map over the keys ks, or one of the few
Remotes(ks, any) == IF any THEN MapsOver(ks) ELSE FewRemotes

\* the controller starts
InitController(configs, any) ==
    /\ cfg \in configs
    /\ IF cfg.Cloud = "aws"
       THEN /\ ec2Tags \in [Ec2Instances -> Remotes(Ec2TagKeys(cfg), any)]
            /\ gceInst = [i \in GceInstances |-> GceInstance(EmptyMap)]
       ELSE /\ ec2Tags = [i \in Ec2Instances |-> EmptyMap]
            /\ gceInst \in {[i \in GceInstances |-> GceInstance(f[i])]
                            : f \in [GceInstances -> Remotes(GceLabelKeys(cfg), any)]}
    /\ pass = [w \in Workers |-> IdlePass]
    /\ settled = [n \in NodeNames |-> FALSE]
    /\ call = NoCall

\* no node exists yet
Init ==
    /\ InitController(Configs, FALSE)
    /\ node = [n \in NodeNames |-> Nil]
    /\ rv = 0
    /\ queue = {}

---------------------------------------------------------------------------
(* The cluster: node writes and the watch events they cause.  Every event  *)
(* goes through the event filter; an admitted one enqueues the node name.  *)

\* a write of node n: passes that read it before no longer hold the node
NodeWritten(n) ==
    /\ pass' = [w \in DOMAIN pass |->
                  IF pass[w].pc # "idle" /\ pass[w].name = n
                  THEN [pass[w] EXCEPT !.nodeSame = FALSE] ELSE pass[w]]
    /\ settled' = [settled EXCEPT ![n] = FALSE]

\* the controller's queue after an event for the node of this name, which
\* the event filter admitted or not
Deliver(name, admitted) ==
    queue' = IF admitted THEN queue \cup {name} ELSE queue

NodeObject(name, labels, annotations, providerID, version) ==
    [Name |-> name, Labels |-> labels, Annotations |-> annotations,
     ProviderID |-> providerID, ResourceVersion |-> version]

\* a node is created: a create event
NodeCreate(n) ==
    /\ node[n] = Nil
    /\ rv < MaxRV
    /\ \E labels \in MapsOver(NodeLabelKeys(cfg)),
          annotations \in MapsOver(NodeAnnotationKeys(cfg)),
          providerID \in ProviderIDs(cfg.Cloud) :
          LET new == NodeObject(n, labels, annotations, providerID, rv + 1)
          IN  /\ node' = [node EXCEPT ![n] = new]
              /\ Deliver(n, CreateFunc(new, cfg))
    /\ rv' = rv + 1
    /\ NodeWritten(n)
    /\ UNCHANGED <<cfg, ec2Tags, gceInst, call>>

\* a label or an annotation of a node is set or removed, or its provider id
\* is assigned: an update event with a new ResourceVersion
NodeUpdate(n) ==
    /\ node[n] # Nil
    /\ rv < MaxRV
    /\ \E new \in
          {[node[n] EXCEPT !.Labels = MapSet(@, k, v), !.ResourceVersion = rv + 1]
              : k \in NodeLabelKeys(cfg), v \in {vProd, vStaging}}
          \cup {[node[n] EXCEPT !.Labels = MapDelete(@, k), !.ResourceVersion = rv + 1]
              : k \in NodeLabelKeys(cfg)}
          \cup {[node[n] EXCEPT !.Annotations = MapSet(@, k, v), !.ResourceVersion = rv + 1]
              : k \in NodeAnnotationKeys(cfg), v \in {vProd, vStaging}}
          \cup {[node[n] EXCEPT !.Annotations = MapDelete(@, k), !.ResourceVersion = rv + 1]
              : k \in NodeAnnotationKeys(cfg)}
          \cup {[node[n] EXCEPT !.ProviderID = p, !.ResourceVersion = rv + 1]
              : p \in IF node[n].ProviderID = NoProviderID
                      THEN ProviderIDs(cfg.Cloud) \ {NoProviderID} ELSE {}} :
          /\ new.Labels \in MapsOver(NodeLabelKeys(cfg))
          /\ [new EXCEPT !.ResourceVersion = 0] # [node[n] EXCEPT !.ResourceVersion = 0]
          /\ node' = [node EXCEPT ![n] = new]
          /\ Deliver(n, UpdateFunc(node[n], new, cfg))
    /\ rv' = rv + 1
    /\ NodeWritten(n)
    /\ UNCHANGED <<cfg, ec2Tags, gceInst, call>>

\* the informer's periodic resync: an update event with the cached object
\* as both the old and the new object
Resync(n) ==
    /\ node[n] # Nil
    /\ Deliver(n, UpdateFunc(node[n], node[n], cfg))
    /\ UNCHANGED <<cfg, node, rv, ec2Tags, gceInst, pass, settled, call>>

\* a node is deleted: a delete event
NodeDelete(n) ==
    /\ node[n] # Nil
    /\ node' = [node EXCEPT ![n] = Nil]
    /\ Deliver(n, DeleteFunc(node[n], cfg))
    /\ NodeWritten(n)
    /\ UNCHANGED <<cfg, rv, ec2Tags, gceInst, call>>

\* a generic event (no source of the controller produces one)
GenericEvent(n) ==
    /\ node[n] # Nil
    /\ Deliver(n, GenericFunc(node[n], cfg))
    /\ UNCHANGED <<cfg, node, rv, ec2Tags, gceInst, pass, settled, call>>

---------------------------------------------------------------------------
(* Reconcile.  The steps of one invocation up to its first remote call are *)
(* one action; every remote call is an action of its own, and includes the *)
(* computation that follows it up to the next remote call or the return.   *)

\* one range loop of Reconcile over monitored keys, from the i-th key on
RECURSIVE collectTags(_, _, _, _)
collectTags(keys, i, src, tagsToSync) ==
    IF i > Len(keys) THEN tagsToSync
    ELSE collectTags(keys, i + 1, src,
                     IF keys[i] \in DOMAIN src
                     THEN MapSet(tagsToSync, keys[i], src[keys[i]])
                     ELSE tagsToSync)

\* as tagsToSyncOf, collecting the annotations first and the labels after them
tagsToSyncLabelsLast(n, r) ==
    collectTags(r.Labels, 1, n.Labels,
                collectTags(r.Annotations, 1, n.Annotations, EmptyMap))

\* the tagsToSync map Reconcile builds: labels first, then annotations
tagsToSyncOf(n, r) ==
    collectTags(r.Annotations, 1, n.Annotations,
                collectTags(r.Labels, 1, n.Labels, EmptyMap))

\* as Return, always with a nil error
ReturnNil(p, result) == [p EXCEPT !.pc = "done", !.result = "success"]

Return(p, result) == [p EXCEPT !.pc = "done", !.result = result]

\* as IgnoreNotFound, keeping every error
IgnoreNothing(get) == "error"

\* client.IgnoreNotFound on the error of r.Get: what Reconcile returns
IgnoreNotFound(get) == IF get = "notfound" THEN "success" ELSE "error"

\* as Dispatch, without the check of the provider id
DispatchAnyProviderID(p, n, r) ==
    LET providerID == n.ProviderID
        q == [p EXCEPT !.get = "found", !.nodeRead = n, !.providerID = providerID]
        d == [q EXCEPT !.tagsToSync = tagsToSyncOf(n, r)]
    IN  CASE r.Cloud = "aws" ->
               [d EXCEPT !.pc = "DescribeTags", !.instance = PathBase(providerID)]
          [] r.Cloud = "gcp" ->
               LET parsed == parseGCPProviderID(providerID)
               IN  IF ~parsed.ok THEN Return(d, "error")
                   ELSE [d EXCEPT !.pc = "GetInstance",
                                  !.instance = <<parsed.project, parsed.zone,
                                                 parsed.name>>]
          [] OTHER -> Return(d, "success")

\* Reconcile from its entry to the first remote call of the sync function
Dispatch(p, n, r) ==
    LET providerID == n.ProviderID
        q == [p EXCEPT !.get = "found", !.nodeRead = n, !.providerID = providerID]
    IN  IF providerID = <<>> THEN Return(q, "success")
        ELSE LET d == [q EXCEPT !.tagsToSync = tagsToSyncOf(n, r)]
             IN  CASE r.Cloud = "aws" ->
                        LET instanceID == PathBase(providerID)
                        IN  IF instanceID = <<>> THEN Return(d, "error")
                            ELSE [d EXCEPT !.pc = "DescribeTags",
                                           !.instance = instanceID]
                   [] r.Cloud = "gcp" ->
                        LET parsed == parseGCPProviderID(providerID)
                        IN  IF ~parsed.ok THEN Return(d, "error")
                            ELSE [d EXCEPT !.pc = "GetInstance",
                                           !.instance = <<parsed.project, parsed.zone,
                                                          parsed.name>>]
                   [] OTHER -> Return(d, "success")

\* StartReconcile without the queue giving a name to one worker at a time
StartReconcileUnserialized(w) ==
    /\ pass[w].pc = "idle"
    /\ \E name \in queue :
          /\ queue' = queue \ {name}
          /\ LET p == [IdlePass EXCEPT !.name = name,
                          !.fromSettled = settled[name]]
             IN  \/ pass' = [pass EXCEPT ![w] =
                                Return([p EXCEPT !.get = "error"],
                                       IgnoreNotFound("error"))]
                 \/ /\ node[name] = Nil
                    /\ pass' = [pass EXCEPT ![w] =
                                Return([p EXCEPT !.get = "notfound"],
                                       IgnoreNotFound("notfound"))]
                 \/ /\ node[name] # Nil
                    /\ pass' = [pass EXCEPT ![w] = Dispatch(p, node[name], cfg)]
    /\ UNCHANGED <<cfg, node, rv, ec2Tags, gceInst, settled, call>>

\* a worker takes a name from the queue; the queue never gives out a name a
\* pass is running for
StartReconcile(w) ==
    /\ pass[w].pc = "idle"
    /\ \E name \in queue :
          /\ \A v \in DOMAIN pass :
                pass[v].pc \in {"idle", "done"} \/ pass[v].name # name
          /\ queue' = queue \ {name}
          /\ LET p == [IdlePass EXCEPT !.name = name,
                          !.fromSettled = settled[name]]
             IN  \/ pass' = [pass EXCEPT ![w] =
                                Return([p EXCEPT !.get = "error"],
                                       IgnoreNotFound("error"))]
                 \/ /\ node[name] = Nil
                    /\ pass' = [pass EXCEPT ![w] =
                                Return([p EXCEPT !.get = "notfound"],
                                       IgnoreNotFound("notfound"))]
                 \/ /\ node[name] # Nil
                    /\ pass' = [pass EXCEPT ![w] = Dispatch(p, node[name], cfg)]
    /\ UNCHANGED <<cfg, node, rv, ec2Tags, gceInst, settled, call>>

\* Reconcile returns; the worker is free again
FinishReconcile(w) ==
    /\ pass[w].pc = "done"
    /\ settled' = [settled EXCEPT ![pass[w].name] =
                      /\ pass[w].result = "success"
                      /\ pass[w].calls # <<>>
                      /\ pass[w].undisturbed
                      /\ pass[w].nodeSame]
    /\ pass' = [pass EXCEPT ![w] = IdlePass]
    /\ UNCHANGED <<cfg, node, rv, queue, ec2Tags, gceInst, call>>

---------------------------------------------------------------------------
(* syncAWSTags.                                                            *)

Ec2TagsOf(id) == IF id \in DOMAIN ec2Tags THEN ec2Tags[id] ELSE EmptyMap

\* the set of all monitored keys (both labels and annotations)
awsMonitoredKeys(r) == Range(r.Labels) \cup Range(r.Annotations)

\* the monitored tags among the ones DescribeTags returned
currentTagsOf(tags, monitoredKeys) ==
    [k \in {x \in DOMAIN tags : x # <<>> /\ x \in monitoredKeys} |-> tags[k]]

\* as toAddOf, adding the missing tags only
toAddMissingOnly(desiredTags, currentTags) ==
    {[Key |-> k, Value |-> desiredTags[k]] :
        k \in {x \in DOMAIN desiredTags : x \notin DOMAIN currentTags}}

\* tags to add or update
toAddOf(desiredTags, currentTags) ==
    {[Key |-> k, Value |-> desiredTags[k]] :
        k \in {x \in DOMAIN desiredTags :
                  x \notin DOMAIN currentTags \/ currentTags[x] # desiredTags[x]}}

\* as toDeleteOf, removing every monitored tag the instance has
toDeleteAllMonitored(desiredTags, currentTags, monitoredKeys) ==
    {[Key |-> k] : k \in {x \in DOMAIN currentTags : x \in monitoredKeys}}

\* monitored tags to remove
toDeleteOf(desiredTags, currentTags, monitoredKeys) ==
    {[Key |-> k] :
        k \in {x \in DOMAIN currentTags :
                  x \in monitoredKeys /\ x \notin DOMAIN desiredTags}}

\* as syncAWSTagsDiff, comparing the desired tags with all the instance's
\* tags
syncAWSTagsDiffUnfiltered(tags, desiredTags, r) ==
    [currentTags |-> tags,
     toAdd |-> toAddOf(desiredTags, tags),
     toDelete |-> {[Key |-> k] : k \in (DOMAIN tags) \ (DOMAIN desiredTags)}]

\* what syncAWSTags computes from the tags DescribeTags returned
syncAWSTagsDiff(tags, desiredTags, r) ==
    LET monitoredKeys == awsMonitoredKeys(r)
        currentTags == currentTagsOf(tags, monitoredKeys)
    IN  [currentTags |-> currentTags,
         toAdd |-> toAddOf(desiredTags, currentTags),
         toDelete |-> toDeleteOf(desiredTags, currentTags, monitoredKeys)]

\* EC2 applying CreateTags and DeleteTags
ApplyCreateTags(tags, batch) ==
    [k \in (DOMAIN tags) \cup {t.Key : t \in batch} |->
        IF \E t \in batch : t.Key = k
        THEN (CHOOSE t \in batch : t.Key = k).Value
        ELSE tags[k]]
ApplyDeleteTags(tags, batch) ==
    [k \in (DOMAIN tags) \ {t.Key : t \in batch} |-> tags[k]]

\* as AfterCreateTags, with the DeleteTags call inside the branch of the
\* CreateTags call
AfterCreateTagsDeleteOnlyAfterCreate(p) ==
    IF p.toDelete # {} /\ p.toAdd # {}
    THEN [p EXCEPT !.pc = "DeleteTags"] ELSE Return(p, "success")

AfterCreateTags(p) ==
    IF p.toDelete # {} THEN [p EXCEPT !.pc = "DeleteTags"] ELSE Return(p, "success")

\* as AfterDescribeTags, calling CreateTags whatever the batch
AfterDescribeTagsAlwaysCreate(p) == [p EXCEPT !.pc = "CreateTags"]

AfterDescribeTags(p) ==
    IF p.toAdd # {} THEN [p EXCEPT !.pc = "CreateTags"] ELSE AfterCreateTags(p)

\* as DescribeTags, keeping the batches it computes in fields of the reconciler,
\* which every pass between its calls then uses
DescribeTagsShared(w) ==
    /\ pass[w].pc = "DescribeTags"
    /\ LET p == pass[w]
           tags == Ec2TagsOf(p.instance)
       IN  \/ pass' = [pass EXCEPT ![w] = Return(
                 [p EXCEPT !.calls = Append(@,
                     Call("DescribeTags", p.instance, <<>>, FALSE))],
                 "error")]
           \/ LET diff == syncAWSTagsDiff(tags, p.tagsToSync, cfg)
              IN  pass' = [v \in DOMAIN pass |->
                     IF v = w
                     THEN AfterDescribeTags(
                            [p EXCEPT !.calls = Append(@,
                                          Call("DescribeTags", p.instance, <<>>, TRUE)),
                                      !.fetched = tags,
                                      !.remoteBefore = tags,
                                      !.currentTags = diff.currentTags,
                                      !.toAdd = diff.toAdd,
                                      !.toDelete = diff.toDelete])
                     ELSE IF pass[v].pc \in {"CreateTags", "DeleteTags"}
                     THEN [pass[v] EXCEPT !.toAdd = diff.toAdd,
                                          !.toDelete = diff.toDelete]
                     ELSE pass[v]]
    /\ UNCHANGED <<cfg, node, rv, queue, ec2Tags, gceInst, settled, call>>

DescribeTags(w) ==
    /\ pass[w].pc = "DescribeTags"
    /\ LET p == pass[w]
           tags == Ec2TagsOf(p.instance)
       IN  \/ pass' = [pass EXCEPT ![w] = Return(
                 [p EXCEPT !.calls = Append(@,
                     Call("DescribeTags", p.instance, <<>>, FALSE))],
                 "error")]
           \/ LET diff == syncAWSTagsDiff(tags, p.tagsToSync, cfg)
              IN  pass' = [pass EXCEPT ![w] = AfterDescribeTags(
                     [p EXCEPT !.calls = Append(@,
                                   Call("DescribeTags", p.instance, <<>>, TRUE)),
                               !.fetched = tags,
                               !.remoteBefore = tags,
                               !.currentTags = diff.currentTags,
                               !.toAdd = diff.toAdd,
                               !.toDelete = diff.toDelete])]
    /\ UNCHANGED <<cfg, node, rv, queue, ec2Tags, gceInst, settled, call>>

\* as CreateTags, going on to DeleteTags after a failure
CreateTagsFailureIgnored(w) ==
    /\ pass[w].pc = "CreateTags"
    /\ LET p == pass[w]
           tags == Ec2TagsOf(p.instance)
           after == ApplyCreateTags(tags, p.toAdd)
       IN  \/ /\ pass' = [pass EXCEPT ![w] = AfterCreateTags(
                    [p EXCEPT !.calls = Append(@,
                        Call("CreateTags", p.instance, p.toAdd, FALSE))])]
              /\ UNCHANGED ec2Tags
           \/ /\ p.instance \in DOMAIN ec2Tags
              /\ ec2Tags' = [ec2Tags EXCEPT ![p.instance] = after]
              /\ pass' = [pass EXCEPT ![w] = AfterCreateTags(
                    [p EXCEPT !.calls = Append(@,
                        Call("CreateTags", p.instance, p.toAdd, TRUE))])]
    /\ UNCHANGED <<cfg, node, rv, queue, gceInst, settled, call>>

CreateTags(w) ==
    /\ pass[w].pc = "CreateTags"
    /\ LET p == pass[w]
           tags == Ec2TagsOf(p.instance)
           after == ApplyCreateTags(tags, p.toAdd)
       IN  \/ /\ pass' = [pass EXCEPT ![w] = Return(
                    [p EXCEPT !.calls = Append(@,
                        Call("CreateTags", p.instance, p.toAdd, FALSE))],
                    "error")]
              /\ UNCHANGED ec2Tags
           \/ /\ p.instance \in DOMAIN ec2Tags
              /\ ec2Tags' = [ec2Tags EXCEPT ![p.instance] = after]
              /\ pass' = [pass EXCEPT ![w] = AfterCreateTags(
                    [p EXCEPT !.calls = Append(@,
                        Call("CreateTags", p.instance, p.toAdd, TRUE))])]
    /\ UNCHANGED <<cfg, node, rv, queue, gceInst, settled, call>>

\* as DeleteTags, with every monitored tag the instance has in the batch
DeleteTagsOfCurrent(w) ==
    /\ pass[w].pc = "DeleteTags"
    /\ LET p == pass[w]
           tags == Ec2TagsOf(p.instance)
           batch == {[Key |-> k] : k \in DOMAIN p.currentTags}
           after == ApplyDeleteTags(tags, batch)
       IN  \/ /\ pass' = [pass EXCEPT ![w] = Return(
                    [p EXCEPT !.calls = Append(@,
                        Call("DeleteTags", p.instance, batch, FALSE))],
                    "error")]
              /\ UNCHANGED ec2Tags
           \/ /\ p.instance \in DOMAIN ec2Tags
              /\ ec2Tags' = [ec2Tags EXCEPT ![p.instance] = after]
              /\ pass' = [pass EXCEPT ![w] = Return(
                    [p EXCEPT !.calls = Append(@,
                        Call("DeleteTags", p.instance, batch, TRUE))],
                    "success")]
    /\ UNCHANGED <<cfg, node, rv, queue, gceInst, settled, call>>

DeleteTags(w) ==
    /\ pass[w].pc = "DeleteTags"
    /\ LET p == pass[w]
           tags == Ec2TagsOf(p.instance)
           after == ApplyDeleteTags(tags, p.toDelete)
       IN  \/ /\ pass' = [pass EXCEPT ![w] = Return(
                    [p EXCEPT !.calls = Append(@,
                        Call("DeleteTags", p.instance, p.toDelete, FALSE))],
                    "error")]
              /\ UNCHANGED ec2Tags
           \/ /\ p.instance \in DOMAIN ec2Tags
              /\ ec2Tags' = [ec2Tags EXCEPT ![p.instance] = after]
              /\ pass' = [pass EXCEPT ![w] = Return(
                    [p EXCEPT !.calls = Append(@,
                        Call("DeleteTags", p.instance, p.toDelete, TRUE))],
                    "success")]
    /\ UNCHANGED <<cfg, node, rv, queue, gceInst, settled, call>>

---------------------------------------------------------------------------
(* syncGCPLabels.                                                          *)

GceInstanceOf(id) == IF id \in DOMAIN gceInst THEN gceInst[id] ELSE GceInstance(EmptyMap)

\* the lookup sanitized key -> original key, filled in the order of
\* allMonitoredKeys: a later key replaces an earlier one with the same
\* sanitized form
RECURSIVE sanitizedMonitoredKeys(_, _, _)
sanitizedMonitoredKeys(allMonitoredKeys, i, monitoredKeys) ==
    IF i > Len(allMonitoredKeys) THEN monitoredKeys
    ELSE sanitizedMonitoredKeys(allMonitoredKeys, i + 1,
            MapSet(monitoredKeys, sanitizeKeyForGCP(allMonitoredKeys[i]),
                   allMonitoredKeys[i]))

gcpMonitoredKeys(r) == sanitizedMonitoredKeys(r.Labels \o r.Annotations, 1, EmptyMap)

\* as removeUndesired, removing nothing
removeNothing(labels, monitoredKeys, desiredTags) == labels

\* remove any existing monitored labels that are no longer desired
removeUndesired(labels, monitoredKeys, desiredTags) ==
    [k \in {x \in DOMAIN labels :
               ~(x \in DOMAIN monitoredKeys /\ monitoredKeys[x] \notin DOMAIN desiredTags)}
        |-> labels[k]]

\* add or update desired tags.  The loop ranges over a Go map, whose order
\* is not specified: when several desired keys have the same sanitized form,
\* the one written last, any of them, gives the value.
addDesired(labels, desiredTags) ==
    LET targets == {sanitizeKeyForGCP(k) : k \in DOMAIN desiredTags}
        lastWriters == {c \in [targets -> DOMAIN desiredTags] :
                           \A t \in targets : sanitizeKeyForGCP(c[t]) = t}
    IN  {[k \in (DOMAIN labels) \cup targets |->
            IF k \in targets THEN sanitizeValueForGCP(desiredTags[c[k]]) ELSE labels[k]]
         : c \in lastWriters}

\* as newLabelsOf, starting from an empty map instead of the clone
newLabelsFromEmpty(instanceLabels, desiredTags, r) ==
    addDesired(EmptyMap, desiredTags)

\* the label maps syncGCPLabels may compute from the instance's labels
newLabelsOf(instanceLabels, desiredTags, r) ==
    addDesired(removeUndesired(instanceLabels, gcpMonitoredKeys(r), desiredTags),
               desiredTags)

\* as syncGCPLabelsMaps, changing the map of the instance in place
syncGCPLabelsMapsInPlace(instanceLabels, desiredTags, r) ==
    {[instanceLabels |-> newLabels, newLabels |-> newLabels] :
        newLabels \in newLabelsOf(instanceLabels, desiredTags, r)}

\* the two maps syncGCPLabels holds when it compares them: the one of the
\* instance GetInstance returned, and the clone it changed
syncGCPLabelsMaps(instanceLabels, desiredTags, r) ==
    {[instanceLabels |-> instanceLabels, newLabels |-> newLabels] :
        newLabels \in newLabelsOf(instanceLabels, desiredTags, r)}

\* as GetInstance, calling SetLabels whatever the comparison says
GetInstanceAlwaysSets(w) ==
    /\ pass[w].pc = "GetInstance"
    /\ LET p == pass[w]
           instance == GceInstanceOf(p.instance)
       IN  \/ pass' = [pass EXCEPT ![w] = Return(
                 [p EXCEPT !.calls = Append(@,
                     Call("GetInstance", p.instance, <<>>, FALSE))],
                 "error")]
           \/ \E m \in syncGCPLabelsMaps(instance.Labels, p.tagsToSync, cfg) :
                 pass' = [pass EXCEPT ![w] =
                    [p EXCEPT !.calls = Append(@,
                                  Call("GetInstance", p.instance, <<>>, TRUE)),
                              !.fetched = m.instanceLabels,
                              !.remoteBefore = instance.Labels,
                              !.fingerprint = instance.LabelFingerprint,
                              !.newLabels = m.newLabels,
                              !.pc = "SetLabels"]]
    /\ UNCHANGED <<cfg, node, rv, queue, ec2Tags, gceInst, settled, call>>

GetInstance(w) ==
    /\ pass[w].pc = "GetInstance"
    /\ LET p == pass[w]
           instance == GceInstanceOf(p.instance)
       IN  \/ pass' = [pass EXCEPT ![w] = Return(
                 [p EXCEPT !.calls = Append(@,
                     Call("GetInstance", p.instance, <<>>, FALSE))],
                 "error")]
           \/ \E m \in syncGCPLabelsMaps(instance.Labels, p.tagsToSync, cfg) :
                 LET q == [p EXCEPT !.calls = Append(@,
                                        Call("GetInstance", p.instance, <<>>, TRUE)),
                                    !.fetched = m.instanceLabels,
                                    !.remoteBefore = instance.Labels,
                                    !.fingerprint = instance.LabelFingerprint,
                                    !.newLabels = m.newLabels]
                 IN  pass' = [pass EXCEPT ![w] =
                        IF m.instanceLabels = m.newLabels
                        THEN Return(q, "success")
                        ELSE [q EXCEPT !.pc = "SetLabels"]]
    /\ UNCHANGED <<cfg, node, rv, queue, ec2Tags, gceInst, settled, call>>

\* as SetLabelsRequest, with the fingerprint the instance has by now
SetLabelsRequestFreshFingerprint(p) ==
    [Labels |-> p.newLabels,
     LabelFingerprint |-> GceInstanceOf(p.instance).LabelFingerprint]

\* the InstancesSetLabelsRequest of a pass
SetLabelsRequest(p) == [Labels |-> p.newLabels, LabelFingerprint |-> p.fingerprint]

\* as SetLabels, fetching the instance again after a rejected fingerprint
SetLabelsRetrying(w) ==
    /\ pass[w].pc = "SetLabels"
    /\ LET p == pass[w]
           instance == GceInstanceOf(p.instance)
           req == SetLabelsRequest(p)
           called(ok) == [p EXCEPT !.calls = Append(@,
                             Call("SetLabels", p.instance, req, ok))]
       IN  \/ /\ pass' = [pass EXCEPT ![w] = Return(called(FALSE), "error")]
              /\ UNCHANGED gceInst
           \/ /\ req.LabelFingerprint # instance.LabelFingerprint
              /\ pass' = [pass EXCEPT ![w] = [called(FALSE) EXCEPT !.pc = "GetInstance"]]
              /\ UNCHANGED gceInst
           \/ /\ req.LabelFingerprint = instance.LabelFingerprint
              /\ p.instance \in DOMAIN gceInst
              /\ gceInst' = [gceInst EXCEPT ![p.instance] = GceInstance(req.Labels)]
              /\ pass' = [pass EXCEPT ![w] = Return(called(TRUE), "success")]
    /\ UNCHANGED <<cfg, node, rv, queue, ec2Tags, settled, call>>

SetLabels(w) ==
    /\ pass[w].pc = "SetLabels"
    /\ LET p == pass[w]
           instance == GceInstanceOf(p.instance)
           req == SetLabelsRequest(p)
           failed == Return(
               [p EXCEPT !.calls = Append(@,
                   Call("SetLabels", p.instance, req, FALSE))],
               "error")
       IN  \/ \* the call fails for a reason of its own
              /\ pass' = [pass EXCEPT ![w] = failed]
              /\ UNCHANGED gceInst
           \/ \* GCE rejects a stale fingerprint
              /\ req.LabelFingerprint # instance.LabelFingerprint
              /\ pass' = [pass EXCEPT ![w] = failed]
              /\ UNCHANGED gceInst
           \/ /\ req.LabelFingerprint = instance.LabelFingerprint
              /\ p.instance \in DOMAIN gceInst
              /\ gceInst' = [gceInst EXCEPT ![p.instance] = GceInstance(req.Labels)]
              /\ pass' = [pass EXCEPT ![w] = Return(
                    [p EXCEPT !.calls = Append(@,
                        Call("SetLabels", p.instance, req, TRUE))],
                    "success")]
    /\ UNCHANGED <<cfg, node, rv, queue, ec2Tags, settled, call>>

---------------------------------------------------------------------------
(* Other writers of the remote: they set or remove one tag / label.        *)

Disturb ==
    /\ pass' = [w \in DOMAIN pass |->
                  IF pass[w].pc = "idle" THEN pass[w]
                  ELSE [pass[w] EXCEPT !.undisturbed = FALSE]]
    /\ settled' = [n \in NodeNames |-> FALSE]

ExternalTagWrite(i) ==
    /\ cfg.Cloud = "aws"
    /\ \E tags \in {MapSet(ec2Tags[i], k, v) : k \in Ec2TagKeys(cfg), v \in {vProd, vStaging}}
                   \cup {MapDelete(ec2Tags[i], k) : k \in Ec2TagKeys(cfg)} :
          /\ tags # ec2Tags[i]
          /\ ec2Tags' = [ec2Tags EXCEPT ![i] = tags]
    /\ Disturb
    /\ UNCHANGED <<cfg, node, rv, queue, gceInst, call>>

ExternalLabelWrite(i) ==
    /\ cfg.Cloud = "gcp"
    /\ \E labels \in {MapSet(gceInst[i].Labels, k, v)
                         : k \in GceLabelKeys(cfg), v \in {vProd, vStaging}}
                     \cup {MapDelete(gceInst[i].Labels, k) : k \in GceLabelKeys(cfg)} :
          /\ labels # gceInst[i].Labels
          /\ gceInst' = [gceInst EXCEPT ![i] = GceInstance(labels)]
    /\ Disturb
    /\ UNCHANGED <<cfg, node, rv, queue, ec2Tags, call>>

---------------------------------------------------------------------------

Next ==
    \/ \E n \in NodeNames : NodeCreate(n)
    \/ \E n \in NodeNames : NodeUpdate(n)
    \/ \E n \in NodeNames : Resync(n)
    \/ \E n \in NodeNames : NodeDelete(n)
    \/ \E n \in NodeNames : GenericEvent(n)
    \/ \E w \in Workers : StartReconcile(w)
    \/ \E w \in Workers : DescribeTags(w)
    \/ \E w \in Workers : CreateTags(w)
    \/ \E w \in Workers : DeleteTags(w)
    \/ \E w \in Workers : GetInstance(w)
    \/ \E w \in Workers : SetLabels(w)
    \/ \E w \in Workers : FinishReconcile(w)
    \/ \E i \in Ec2Instances : ExternalTagWrite(i)
    \/ \E i \in GceInstances : ExternalLabelWrite(i)

Spec == Init /\ [][Next]_vars

---------------------------------------------------------------------------
(* The passes over one node that does not change: a node was created and   *)
(* its name is in the queue; the informer's resync puts it there again.    *)

InitSync ==
    /\ InitController(SyncConfigs, TRUE)
    /\ \E n \in NodeNames :
          \E labels \in MapsOver(NodeLabelKeys(cfg)),
             annotations \in MapsOver(NodeAnnotationKeys(cfg)),
             providerID \in ProviderIDs(cfg.Cloud) :
             /\ node = [m \in NodeNames |->
                          IF m = n
                          THEN NodeObject(n, labels, annotations, providerID, 1)
                          ELSE Nil]
             /\ queue = {n}
    /\ rv = 1

NextSync ==
    \/ \E n \in NodeNames : Resync(n)
    \/ \E w \in Workers : StartReconcile(w)
    \/ \E w \in Workers : DescribeTags(w)
    \/ \E w \in Workers : CreateTags(w)
    \/ \E w \in Workers : DeleteTags(w)
    \/ \E w \in Workers : GetInstance(w)
    \/ \E w \in Workers : SetLabels(w)
    \/ \E w \in Workers : FinishReconcile(w)
    \/ \E i \in Ec2Instances : ExternalTagWrite(i)
    \/ \E i \in GceInstances : ExternalLabelWrite(i)

SpecSync == InitSync /\ [][NextSync]_vars

---------------------------------------------------------------------------
(* The event filter's functions called directly, on any nodes and any      *)
(* lists of monitored keys.                                                *)

vEmpty == <<>>

\* nodes given to the filter: labels env and cc, annotation env, present
\* with a value (also the empty string) or absent; nil
FilterNodes(version) ==
    {NodeObject("node1", labels, annotations, NoProviderID, version) :
        labels \in UNION {[d -> {vProd, vStaging, vEmpty}]
                             : d \in SUBSET {kEnv, kCostCenter}},
        annotations \in UNION {[d -> {vProd, vEmpty}] : d \in SUBSET {kEnv}}}

FilterConfigs ==
    {[Cloud |-> "aws", Labels |-> l, Annotations |-> a] :
        l \in {<<>>, <<kEnv>>, <<kCostCenter, kEnv>>}, a \in {<<>>, <<kEnv>>}}

\* an update event has two ResourceVersions, or the same object twice
InitFilter ==
    /\ cfg \in FilterConfigs
    /\ \E old \in FilterNodes(1) \cup {Nil},
          new \in FilterNodes(1) \cup FilterNodes(2) \cup {Nil} :
          /\ (old # Nil /\ new # Nil /\ old.ResourceVersion = new.ResourceVersion)
                => old = new
          /\ call = [fn |-> "input", old |-> old, new |-> new, result |-> FALSE]
    /\ node = [n \in NodeNames |-> Nil]
    /\ rv = 0
    /\ queue = {}
    /\ ec2Tags = [i \in Ec2Instances |-> EmptyMap]
    /\ gceInst = [i \in GceInstances |-> GceInstance(EmptyMap)]
    /\ pass = [w \in Workers |-> IdlePass]
    /\ settled = [n \in NodeNames |-> FALSE]

Returned(fn, result) ==
    /\ call.fn = "input"
    /\ call' = [call EXCEPT !.fn = fn, !.result = result]
    /\ UNCHANGED sysVars

CallShouldProcessNodeCreate ==
    /\ call.fn = "input"
    /\ Returned("shouldProcessNodeCreate",
                shouldProcessNodeCreate(call.new, cfg.Labels, cfg.Annotations))

CallShouldProcessNodeUpdate ==
    /\ call.fn = "input"
    /\ Returned("shouldProcessNodeUpdate",
                shouldProcessNodeUpdate(call.old, call.new, cfg.Labels,
                                        cfg.Annotations))

\* the framework gives the filter's functions the objects of an event: no nil
CallUpdateFunc ==
    /\ call.old # Nil /\ call.new # Nil
    /\ Returned("UpdateFunc", UpdateFunc(call.old, call.new, cfg))

CallCreateFunc ==
    /\ call.new # Nil
    /\ Returned("CreateFunc", CreateFunc(call.new, cfg))

CallDeleteFunc ==
    /\ call.new # Nil
    /\ Returned("DeleteFunc", DeleteFunc(call.new, cfg))

CallGenericFunc ==
    /\ call.new # Nil
    /\ Returned("GenericFunc", GenericFunc(call.new, cfg))

NextFilter ==
    \/ CallShouldProcessNodeCreate
    \/ CallShouldProcessNodeUpdate
    \/ CallUpdateFunc
    \/ CallCreateFunc
    \/ CallDeleteFunc
    \/ CallGenericFunc

SpecFilter == InitFilter /\ [][NextFilter]_vars

---------------------------------------------------------------------------
(* What the claims are stated with: the monitored keys and the Desired     *)
(* State, by their definition rather than by the loops that compute them.  *)

Monitored(r) == Range(r.Labels) \cup Range(r.Annotations)
SanitizedMonitored(r) == {sanitizeKeyForGCP(k) : k \in Monitored(r)}

FromAnnotation(n, r, k) == k \in Range(r.Annotations) /\ k \in DOMAIN n.Annotations
FromLabel(n, r, k) == k \in Range(r.Labels) /\ k \in DOMAIN n.Labels

DesiredState(n, r) ==
    [k \in {x \in Monitored(r) : FromAnnotation(n, r, x) \/ FromLabel(n, r, x)} |->
        IF FromAnnotation(n, r, k) THEN n.Annotations[k] ELSE n.Labels[k]]

\* k has the same presence and value in both maps
SameAt(m1, m2, k) ==
    /\ (k \in DOMAIN m1) <=> (k \in DOMAIN m2)
    /\ (k \in DOMAIN m1 /\ k \in DOMAIN m2) => m1[k] = m2[k]

Issued(p, ops) == {i \in 1..Len(p.calls) : p.calls[i].op \in ops}
Applied(p, ops) == {i \in Issued(p, ops) : p.calls[i].ok}

\* a pass that ran the sync of its provider to the end and returned success
Synced(p) ==
    /\ p.pc = "done"
    /\ p.result = "success"
    /\ p.get = "found"
    /\ p.providerID # <<>>

---------------------------------------------------------------------------
(* C1..C5: the passes, under SpecSync.                                     *)

\* C1: after a tag-provider pass that returned success, with no other writer
\* since the pass began, every monitored key has remotely the value of the
\* Desired State, or is absent when the Desired State has no entry for it, and
\* every other remote tag is as it was before the pass.
C1_TagPostState ==
    \A w \in Workers :
        LET p == pass[w]
            now == Ec2TagsOf(p.instance)
            desired == DesiredState(p.nodeRead, cfg)
        IN  (cfg.Cloud = "aws" /\ Synced(p) /\ p.undisturbed) =>
               /\ \A k \in Monitored(cfg) :
                     IF k \in DOMAIN desired
                     THEN k \in DOMAIN now /\ now[k] = desired[k]
                     ELSE k \notin DOMAIN now
               /\ \A k \in ((DOMAIN now) \cup (DOMAIN p.remoteBefore)) \ Monitored(cfg) :
                     SameAt(now, p.remoteBefore, k)

\* a successful undisturbed pass that created and deleted tags on an instance
\* with a tag of somebody else
C1_Witness ==
    \E w \in Workers :
        /\ cfg.Cloud = "aws" /\ Synced(pass[w]) /\ pass[w].undisturbed
        /\ Applied(pass[w], {"CreateTags"}) # {}
        /\ Applied(pass[w], {"DeleteTags"}) # {}
        /\ kCostCenter \in DOMAIN pass[w].remoteBefore

\* C2: in every tag-provider pass every key of a CreateTags or DeleteTags
\* batch is a monitored key; a remote tag that is not monitored is in neither.
C2_BatchesMonitoredOnly ==
    \A w \in Workers :
        \A i \in Issued(pass[w], {"CreateTags", "DeleteTags"}) :
            \A t \in pass[w].calls[i].arg : t.Key \in Monitored(cfg)

\* a pass issued DeleteTags on an instance with a tag that is not monitored
C2_Witness ==
    \E w \in Workers :
        /\ Issued(pass[w], {"DeleteTags"}) # {}
        /\ kCostCenter \in DOMAIN pass[w].fetched

\* C3: in every label-provider pass that calls SetLabels, every fetched label
\* whose key is not the sanitized form of a monitored key is in the SetLabels
\* map with its fetched value, and every key of the map is a fetched key or
\* the sanitized form of a Desired State key.
C3_SetLabelsFrame ==
    \A w \in Workers :
        \A i \in Issued(pass[w], {"SetLabels"}) :
            LET sent == pass[w].calls[i].arg.Labels
                fetched == pass[w].fetched
                desired == DesiredState(pass[w].nodeRead, cfg)
            IN  /\ \A k \in (DOMAIN fetched) \ SanitizedMonitored(cfg) :
                      k \in DOMAIN sent /\ sent[k] = fetched[k]
                /\ \A k \in DOMAIN sent :
                      \/ k \in DOMAIN fetched
                      \/ \E d \in DOMAIN desired : k = sanitizeKeyForGCP(d)

\* a pass called SetLabels with a label of somebody else and a desired label
C3_Witness ==
    \E w \in Workers :
        /\ Issued(pass[w], {"SetLabels"}) # {}
        /\ kCostCenter \in DOMAIN pass[w].fetched
        /\ pass[w].tagsToSync # EmptyMap

\* a step in which the SetLabels of a pass is applied
SetLabelsApplied ==
    \E w \in Workers :
        /\ pass[w].pc = "SetLabels"
        /\ pass'[w].pc = "done"
        /\ pass'[w].result = "success"

\* C4: whatever other writers do between the GetInstance and the SetLabels of
\* a pass, a SetLabels the remote applies leaves every label whose key is not
\* the sanitized form of a monitored key as it was right before that write.
C4_SetLabelsKeepsOthers ==
    [][SetLabelsApplied =>
          \A i \in GceInstances :
              \A k \in ((DOMAIN gceInst[i].Labels) \cup (DOMAIN gceInst'[i].Labels))
                          \ SanitizedMonitored(cfg) :
                  SameAt(gceInst[i].Labels, gceInst'[i].Labels, k)]_vars

\* the SetLabels of a pass was applied although another writer wrote while
\* the pass ran, on an instance that has a label of somebody else
C4_Witness ==
    \E w \in Workers :
        /\ Synced(pass[w])
        /\ Applied(pass[w], {"SetLabels"}) # {}
        /\ ~pass[w].undisturbed
        /\ kCostCenter \in DOMAIN GceInstanceOf(pass[w].instance).Labels

Mutating == {"CreateTags", "DeleteTags", "SetLabels"}

\* C5: a pass for a node whose previous pass succeeded, with the node as it
\* was then and no remote change since, issues no CreateTags, no DeleteTags
\* and no SetLabels.
C5_SecondPassIssuesNothing ==
    \A w \in Workers :
        (pass[w].fromSettled /\ pass[w].undisturbed) =>
            Issued(pass[w], Mutating) = {}

---------------------------------------------------------------------------
(* C6..C9: the event filter, under SpecFilter.                             *)

HasKeyOf(keys, m) == \E k \in Range(keys) : k \in DOMAIN m
DiffersAt(keys, m1, m2) == \E k \in Range(keys) : ~SameAt(m1, m2, k)

\* C6: shouldProcessNodeCreate is true exactly when the node is not nil and
\* has a monitored label key among its labels or a monitored annotation key
\* among its annotations.
C6_CreateAdmission ==
    call.fn = "shouldProcessNodeCreate" =>
        (call.result <=>
            /\ call.new # Nil
            /\ \/ HasKeyOf(cfg.Labels, call.new.Labels)
               \/ HasKeyOf(cfg.Annotations, call.new.Annotations))

\* true for a node that has the monitored annotation and no monitored label
C6_Witness ==
    /\ call.fn = "shouldProcessNodeCreate"
    /\ call.result
    /\ cfg.Labels # <<>>
    /\ ~HasKeyOf(cfg.Labels, call.new.Labels)

\* C7: shouldProcessNodeUpdate is true exactly when both nodes are not nil and
\* a monitored label key differs between the label maps, or a monitored
\* annotation key between the annotation maps, in presence or in value.
C7_UpdateAdmission ==
    call.fn = "shouldProcessNodeUpdate" =>
        (call.result <=>
            /\ call.old # Nil
            /\ call.new # Nil
            /\ \/ DiffersAt(cfg.Labels, call.old.Labels, call.new.Labels)
               \/ DiffersAt(cfg.Annotations, call.old.Annotations,
                            call.new.Annotations))

\* true for two nodes whose monitored keys differ in nothing but one being
\* absent where the other has the empty string
C7_Witness ==
    /\ call.fn = "shouldProcessNodeUpdate"
    /\ call.result
    /\ \A k \in {kEnv, kCostCenter} :
          \/ SameAt(call.old.Labels, call.new.Labels, k)
          \/ (k \in DOMAIN call.old.Labels => call.old.Labels[k] = vEmpty)
             /\ (k \in DOMAIN call.new.Labels => call.new.Labels[k] = vEmpty)
    /\ \A k \in {kEnv} :
          \/ SameAt(call.old.Annotations, call.new.Annotations, k)
          \/ (k \in DOMAIN call.old.Annotations => call.old.Annotations[k] = vEmpty)
             /\ (k \in DOMAIN call.new.Annotations => call.new.Annotations[k] = vEmpty)

MonitoredDiffers(old, new, r) ==
    \/ DiffersAt(r.Labels, old.Labels, new.Labels)
    \/ DiffersAt(r.Annotations, old.Annotations, new.Annotations)
HasMonitored(n, r) ==
    \/ HasKeyOf(r.Labels, n.Labels)
    \/ HasKeyOf(r.Annotations, n.Annotations)

C9_UpdateWithMonitoredLabelAdmitted ==
    (call.fn = "UpdateFunc" /\ HasKeyOf(cfg.Labels, call.new.Labels)) => call.result

---------------------------------------------------------------------------
(* C10: node deletion, under Spec.                                         *)

\* a step that deletes a node or delivers a generic event
DeleteOrGenericEvent == \E n \in NodeNames : NodeDelete(n) \/ GenericEvent(n)

\* C10: a delete event and a generic event put no name into the queue, and a
\* Reconcile that does not find its node issues no remote call and returns
\* success.
C10_NoCleanupOnDelete ==
    /\ [][DeleteOrGenericEvent => queue' = queue]_vars
    /\ [](\A w \in Workers :
             (pass[w].pc # "idle" /\ pass[w].nodeRead = Nil) =>
                 /\ pass[w].calls = <<>>
                 /\ pass[w].pc = "done"
                 /\ pass[w].get = "notfound" => pass[w].result = "success")

\* a Reconcile ran for a node deleted after its event was admitted
C10_Witness ==
    \E w \in Workers :
        /\ pass[w].pc = "done"
        /\ pass[w].get = "notfound"
        /\ node[pass[w].name] = Nil

---------------------------------------------------------------------------
(* Recovery by the periodic resync.  A change event was dropped, or another *)
(* writer undid its effect: the node and its instance are in any state and  *)
(* no name is in the queue.  The node does not change any more, the         *)
(* informer keeps delivering its resync events, and nobody else writes.     *)

\* two monitored keys: a node may have lost one and still have the other
RecoverConfigs ==
    { [Cloud |-> "aws", Labels |-> <<kEnv, kCostCenter>>, Annotations |-> <<>>],
      [Cloud |-> "gcp", Labels |-> <<>>, Annotations |-> <<kEnv, kCostCenter>>] }

InitRecover ==
    /\ InitController(RecoverConfigs, TRUE)
    /\ \E n \in NodeNames :
          \E labels \in MapsOver(NodeLabelKeys(cfg)),
             annotations \in MapsOver(NodeAnnotationKeys(cfg)),
             providerID \in ProviderIDs(cfg.Cloud) :
             node = [m \in NodeNames |->
                       IF m = n
                       THEN NodeObject(n, labels, annotations, providerID, 1)
                       ELSE Nil]
    /\ queue = {}
    /\ rv = 1

NextRecover ==
    \/ \E n \in NodeNames : Resync(n)
    \/ \E w \in Workers : StartReconcile(w)
    \/ \E w \in Workers : DescribeTags(w)
    \/ \E w \in Workers : CreateTags(w)
    \/ \E w \in Workers : DeleteTags(w)
    \/ \E w \in Workers : GetInstance(w)
    \/ \E w \in Workers : SetLabels(w)
    \/ \E w \in Workers : FinishReconcile(w)

\* a step of worker w in which no call fails: neither the node fetch nor a
\* remote call
Succeeds(w) == pass'[w].result # "error"

\* resync events keep being delivered, a worker takes what is in the queue,
\* and calls eventually succeed
FairRecover ==
    /\ \A n \in NodeNames : WF_vars(Resync(n))
    /\ \A w \in Workers :
          /\ SF_vars(StartReconcile(w) /\ Succeeds(w))
          /\ SF_vars(DescribeTags(w) /\ Succeeds(w))
          /\ SF_vars(CreateTags(w) /\ Succeeds(w))
          /\ SF_vars(DeleteTags(w) /\ Succeeds(w))
          /\ SF_vars(GetInstance(w) /\ Succeeds(w))
          /\ SF_vars(SetLabels(w) /\ Succeeds(w))
          /\ WF_vars(FinishReconcile(w))

SpecRecover == InitRecover /\ [][NextRecover]_vars /\ FairRecover

---------------------------------------------------------------------------
(* C11: recovery, under SpecRecover.                                       *)

\* the remote tags or labels of the instance a provider id names, if it
\* names one
HasInstance(n, r) ==
    IF r.Cloud = "aws" THEN PathBase(n.ProviderID) \in Ec2Instances
    ELSE LET parsed == parseGCPProviderID(n.ProviderID)
         IN  parsed.ok /\ <<parsed.project, parsed.zone, parsed.name>> \in GceInstances
RemoteOf(n, r) ==
    IF r.Cloud = "aws" THEN ec2Tags[PathBase(n.ProviderID)]
    ELSE LET parsed == parseGCPProviderID(n.ProviderID)
         IN  gceInst[<<parsed.project, parsed.zone, parsed.name>>].Labels

\* the remote monitored keys of the node's instance equal its Desired State
RemoteEqualsDesired(n, r) ==
    LET desired == DesiredState(n, r)
        remote == RemoteOf(n, r)
    IN  IF r.Cloud = "aws"
        THEN \A k \in Monitored(r) : SameAt(remote, desired, k)
        ELSE /\ \A k \in DOMAIN desired :
                   /\ sanitizeKeyForGCP(k) \in DOMAIN remote
                   /\ remote[sanitizeKeyForGCP(k)] = sanitizeValueForGCP(desired[k])
             /\ \A k \in Monitored(r) \ DOMAIN desired :
                   sanitizeKeyForGCP(k) \notin DOMAIN remote

Recovered ==
    \A n \in NodeNames :
        (node[n] # Nil /\ HasInstance(node[n], cfg)) =>
            RemoteEqualsDesired(node[n], cfg)

\* C11: whatever the node and its instance are after a dropped event, with
\* resync events delivered and calls eventually succeeding, the remote
\* monitored keys of the node's instance eventually equal its Desired State.
C11_RecoversEveryNodeState == <>Recovered

\* the same for the nodes that have a monitored key
RecoversNodesWithMonitoredKey ==
    (\A n \in NodeNames : node[n] # Nil => HasMonitored(node[n], cfg)) => <>Recovered

---------------------------------------------------------------------------
(* C12..C18: the passes, under SpecSync.                                   *)

\* a pass that read its node and went on after the check of the provider id
Collected(p) == p.pc # "idle" /\ p.get = "found" /\ p.providerID # <<>>

\* C12: tagsToSync maps k to the node's annotation k when k is a monitored
\* annotation the node has, otherwise to the node's label k when k is a
\* monitored label the node has, and otherwise has no entry for k; every key
\* of it is a monitored key, and its value is the key's value on the node.
C12_DesiredStateConstruction ==
    \A w \in Workers :
        LET p == pass[w]
            n == p.nodeRead
        IN  Collected(p) =>
               /\ p.tagsToSync = DesiredState(n, cfg)
               /\ DOMAIN p.tagsToSync \subseteq Monitored(cfg)
               /\ \A k \in Monitored(cfg) :
                     IF FromAnnotation(n, cfg, k)
                     THEN k \in DOMAIN p.tagsToSync /\ p.tagsToSync[k] = n.Annotations[k]
                     ELSE IF FromLabel(n, cfg, k)
                     THEN k \in DOMAIN p.tagsToSync /\ p.tagsToSync[k] = n.Labels[k]
                     ELSE k \notin DOMAIN p.tagsToSync

\* a pass over a node that has a key, monitored as label and as annotation,
\* with one value as label and another as annotation
C12_Witness ==
    \E w \in Workers :
        LET p == pass[w]
        IN  /\ Collected(p)
            /\ \E k \in Monitored(cfg) :
                  /\ FromAnnotation(p.nodeRead, cfg, k)
                  /\ FromLabel(p.nodeRead, cfg, k)
                  /\ p.nodeRead.Labels[k] # p.nodeRead.Annotations[k]
                  /\ p.tagsToSync[k] = p.nodeRead.Annotations[k]

\* a tag-provider pass whose DescribeTags returned the instance's tags
Described(p) ==
    /\ cfg.Cloud = "aws"
    /\ Applied(p, {"DescribeTags"}) # {}

\* the batches by their definition, from all the tags DescribeTags returned
CreateBatch(desired, fetched) ==
    {[Key |-> k, Value |-> desired[k]] :
        k \in {x \in DOMAIN desired : x \notin DOMAIN fetched \/ fetched[x] # desired[x]}}
DeleteBatch(desired, fetched, r) ==
    {[Key |-> k] : k \in {x \in Monitored(r) : x \in DOMAIN fetched /\ x \notin DOMAIN desired}}

\* C13: in every tag-provider pass the CreateTags batch is the set of the
\* Desired State entries whose key is absent from the fetched tags or has
\* another value there, and the DeleteTags batch is the set of the monitored
\* keys present in the fetched tags and absent from the Desired State; a call
\* carries its batch, and a pass that succeeded made the call of every batch
\* that is not empty.
C13_TagDiff ==
    \A w \in Workers :
        LET p == pass[w]
            desired == DesiredState(p.nodeRead, cfg)
            create == CreateBatch(desired, p.fetched)
            delete == DeleteBatch(desired, p.fetched, cfg)
        IN  Described(p) =>
               /\ p.toAdd = create
               /\ p.toDelete = delete
               /\ \A i \in Issued(p, {"CreateTags"}) : p.calls[i].arg = create
               /\ \A i \in Issued(p, {"DeleteTags"}) : p.calls[i].arg = delete
               /\ Synced(p) =>
                     /\ (create # {}) <=> (Issued(p, {"CreateTags"}) # {})
                     /\ (delete # {}) <=> (Issued(p, {"DeleteTags"}) # {})

\* monitored env, node without env, remote env=p: one delete for env and no
\* create
C13_Witness ==
    \E w \in Workers :
        LET p == pass[w]
        IN  /\ Described(p) /\ Synced(p)
            /\ kEnv \in Monitored(cfg)
            /\ kEnv \notin DOMAIN DesiredState(p.nodeRead, cfg)
            /\ kEnv \in DOMAIN p.fetched /\ p.fetched[kEnv] = vProd
            /\ Issued(p, {"CreateTags"}) = {}
            /\ \E i \in Issued(p, {"DeleteTags"}) : p.calls[i].arg = {[Key |-> kEnv]}

\* a label-provider pass whose GetInstance returned the instance
Fetched(p) ==
    /\ cfg.Cloud = "gcp"
    /\ Applied(p, {"GetInstance"}) # {}

\* the fetched keys the pass removes: sanitized forms of a monitored key that
\* is absent from the Desired State
Undesired(desired, fetched, r) ==
    {f \in DOMAIN fetched :
        \E m \in Monitored(r) : sanitizeKeyForGCP(m) = f /\ m \notin DOMAIN desired}
\* the sanitized forms of the Desired State keys
Targets(desired) == {sanitizeKeyForGCP(k) : k \in DOMAIN desired}

\* the labels of the instance of a pass, now
RemoteLabels(p) == GceInstanceOf(p.instance).Labels

\* C14 as stated: the map has for every Desired State entry (k, v) the value
\* sanitizeValue(v) at sanitizeKey(k), and after a successful pass every
\* sanitized monitored key with no Desired State entry is absent remotely.
C14_EveryDesiredEntryPresent ==
    \A w \in Workers :
        LET p == pass[w]
            desired == DesiredState(p.nodeRead, cfg)
        IN  Fetched(p) =>
               /\ \A k \in DOMAIN desired :
                     /\ sanitizeKeyForGCP(k) \in DOMAIN p.newLabels
                     /\ p.newLabels[sanitizeKeyForGCP(k)] = sanitizeValueForGCP(desired[k])
               /\ (Synced(p) /\ p.undisturbed) =>
                     \A m \in Monitored(cfg) \ DOMAIN desired :
                        sanitizeKeyForGCP(m) \notin DOMAIN RemoteLabels(p)

\* C14, amended: the map compared and sent by SetLabels is the fetched map
\* minus every fetched key that is the sanitized form of a monitored key
\* absent from the Desired State, overlaid at every sanitized Desired State
\* key with the sanitized value of one of the Desired State entries that have
\* this sanitized key; after a successful pass without another writer the
\* remote labels are this map, in which a sanitized monitored key that is the
\* sanitized form of no Desired State key is absent.
C14_NewLabelMap ==
    \A w \in Workers :
        LET p == pass[w]
            desired == DesiredState(p.nodeRead, cfg)
            kept == (DOMAIN p.fetched) \ Undesired(desired, p.fetched, cfg)
        IN  Fetched(p) =>
               /\ DOMAIN p.newLabels = kept \cup Targets(desired)
               /\ \A t \in Targets(desired) :
                     \E k \in DOMAIN desired :
                        /\ sanitizeKeyForGCP(k) = t
                        /\ p.newLabels[t] = sanitizeValueForGCP(desired[k])
               /\ \A f \in kept \ Targets(desired) : p.newLabels[f] = p.fetched[f]
               /\ \A i \in Issued(p, {"SetLabels"}) : p.calls[i].arg.Labels = p.newLabels
               /\ (Synced(p) /\ p.undisturbed) =>
                     /\ RemoteLabels(p) = p.newLabels
                     /\ \A t \in SanitizedMonitored(cfg) \ Targets(desired) :
                           t \notin DOMAIN RemoteLabels(p)

\* a successful pass whose SetLabels removed a stale monitored label from an
\* instance with a label of somebody else
C14_Witness ==
    \E w \in Workers :
        LET p == pass[w]
            desired == DesiredState(p.nodeRead, cfg)
        IN  /\ Fetched(p) /\ Synced(p) /\ p.undisturbed
            /\ Applied(p, {"SetLabels"}) # {}
            /\ Undesired(desired, p.fetched, cfg) \ Targets(desired) # {}
            /\ kCostCenter \in DOMAIN p.fetched

\* C15: every SetLabels call carries the LabelFingerprint the GetInstance of
\* its pass returned; a pass issues at most one GetInstance and at most one
\* SetLabels; a SetLabels the remote rejects is the last call of its pass,
\* which returns an error.
C15_OptimisticConcurrency ==
    \A w \in Workers :
        LET p == pass[w]
        IN  /\ Cardinality(Issued(p, {"GetInstance"})) <= 1
            /\ Cardinality(Issued(p, {"SetLabels"})) <= 1
            /\ \A i \in Issued(p, {"SetLabels"}) :
                  /\ Issued(p, {"GetInstance"}) = {i - 1}
                  /\ p.calls[i - 1].ok
                  /\ p.calls[i].arg.LabelFingerprint = Fingerprint(p.fetched)
                  /\ ~p.calls[i].ok =>
                        /\ i = Len(p.calls)
                        /\ p.pc = "done"
                        /\ p.result = "error"

\* the SetLabels of a pass failed, with a fingerprint that is not the one of
\* the instance's labels: another writer wrote after the GetInstance
C15_Witness ==
    \E w \in Workers :
        LET p == pass[w]
        IN  /\ p.pc = "done" /\ p.result = "error"
            /\ \E i \in Issued(p, {"SetLabels"}) :
                  /\ ~p.calls[i].ok
                  /\ p.calls[i].arg.LabelFingerprint #
                        GceInstanceOf(p.instance).LabelFingerprint

\* C17: a pass whose node has the empty provider id returns success and
\* issues no remote call, whatever the provider and the node's labels and
\* annotations.
C17_EmptyProviderIDNoOp ==
    \A w \in Workers :
        LET p == pass[w]
        IN  (p.get = "found" /\ p.nodeRead.ProviderID = <<>>) =>
               /\ p.pc = "done"
               /\ p.result = "success"
               /\ p.calls = <<>>

\* such a pass on the label provider, for a node with a monitored key whose
\* instance lacks it
C17_Witness ==
    \E w \in Workers :
        LET p == pass[w]
        IN  /\ cfg.Cloud = "gcp"
            /\ p.get = "found" /\ p.nodeRead.ProviderID = <<>>
            /\ p.pc = "done"
            /\ HasMonitored(p.nodeRead, cfg)
            /\ \A i \in GceInstances : gceInst[i].Labels = EmptyMap

Fetching == {"DescribeTags", "GetInstance"}

\* C18: a remote call that returned an error is the last call of its pass,
\* and the pass returns an error; a pass whose fetch failed issued no
\* mutating call; no call is issued twice in a pass.
C18_RemoteErrorsSurface ==
    \A w \in Workers :
        LET p == pass[w]
        IN  /\ \A i \in 1..Len(p.calls) :
                  ~p.calls[i].ok =>
                     /\ i = Len(p.calls)
                     /\ p.pc = "done"
                     /\ p.result = "error"
            /\ (\E i \in Issued(p, Fetching) : ~p.calls[i].ok) =>
                  Issued(p, Mutating) = {}
            /\ \A i, j \in 1..Len(p.calls) : p.calls[i].op = p.calls[j].op => i = j

\* the DeleteTags of a pass failed after its CreateTags was applied
C18_Witness ==
    \E w \in Workers :
        LET p == pass[w]
        IN  /\ p.pc = "done" /\ p.result = "error"
            /\ Applied(p, {"CreateTags"}) # {}
            /\ \E i \in Issued(p, {"DeleteTags"}) : ~p.calls[i].ok

---------------------------------------------------------------------------
(* C16: the node fetch of Reconcile, under Spec.                           *)

\* C16: a Reconcile whose node fetch reports not-found returns success, one
\* whose node fetch fails otherwise returns an error, and both issue no
\* remote call.
C16_NodeFetchOutcome ==
    \A w \in Workers :
        LET p == pass[w]
        IN  /\ p.get = "notfound" =>
                  p.pc = "done" /\ p.result = "success" /\ p.calls = <<>>
            /\ p.get = "error" =>
                  p.pc = "done" /\ p.result = "error" /\ p.calls = <<>>

\* a Reconcile did not find its node, deleted after its event was admitted,
\* while an instance has the monitored tag
C16_Witness ==
    \E w \in Workers :
        /\ pass[w].pc = "done"
        /\ pass[w].get = "notfound"
        /\ pass[w].result = "success"
        /\ \E i \in Ec2Instances :
              kEnv \in DOMAIN ec2Tags[i] /\ ec2Tags[i][kEnv] = vProd

---------------------------------------------------------------------------
(* The provider id: parseGCPProviderID called directly, and Reconcile up to *)
(* its first remote call, on any provider id made of an optional scheme and *)
(* up to MaxIdLen characters.                                               *)

\* characters of a provider id after its scheme
MaxIdLen == 7

IdChars == {"/", "i"}
AwsScheme == <<"a","w","s",":","/","/">>
Schemes == {<<>>, GcePrefix, AwsScheme}
AnyProviderIDs ==
    {s \o t : s \in Schemes, t \in UNION {[1..k -> IdChars] : k \in 0..MaxIdLen}}

InitParse ==
    /\ cfg \in Configs
    /\ \E providerID \in AnyProviderIDs :
          call = [fn |-> "input", providerID |-> providerID]
    /\ node = [n \in NodeNames |-> Nil]
    /\ rv = 0
    /\ queue = {}
    /\ ec2Tags = [i \in Ec2Instances |-> EmptyMap]
    /\ gceInst = [i \in GceInstances |-> GceInstance(EmptyMap)]
    /\ pass = [w \in Workers |-> IdlePass]
    /\ settled = [n \in NodeNames |-> FALSE]

CallParseGCPProviderID ==
    /\ call.fn = "input"
    /\ call' = [fn |-> "parseGCPProviderID", providerID |-> call.providerID,
                result |-> parseGCPProviderID(call.providerID)]
    /\ UNCHANGED sysVars

\* Reconcile for a node with this provider id and a monitored key, up to the
\* first remote call or the return
CallDispatch ==
    /\ call.fn = "input"
    /\ \E n \in NodeNames :
          call' = [fn |-> "Dispatch", providerID |-> call.providerID,
                   result |-> Dispatch([IdlePass EXCEPT !.name = n],
                                       NodeObject(n, [k \in {kEnv} |-> vProd],
                                                  [k \in {kEnv} |-> vProd],
                                                  call.providerID, 1),
                                       cfg)]
    /\ UNCHANGED sysVars

NextParse ==
    \/ CallParseGCPProviderID
    \/ CallDispatch

SpecParse == InitParse /\ [][NextParse]_vars

---------------------------------------------------------------------------
(* C19, C20: the provider id, under SpecParse.                             *)

\* the part of s after its last '/', all of s when it has none
FinalSegment(s) ==
    LET i == CHOOSE j \in 0..Len(s) :
                 /\ j = 0 \/ s[j] = "/"
                 /\ \A m \in (j + 1)..Len(s) : s[m] # "/"
    IN  SubSeq(s, i + 1, Len(s))

\* C19: the tag provider's instance id is the final '/'-separated segment of
\* the provider id, and when that segment is empty the sync fails before any
\* remote call.
C19_InstanceIDIsFinalSegment ==
    (call.fn = "Dispatch" /\ cfg.Cloud = "aws" /\ call.providerID # <<>>) =>
        IF FinalSegment(call.providerID) = <<>>
        THEN /\ call.result.pc = "done"
             /\ call.result.result = "error"
             /\ call.result.calls = <<>>
        ELSE /\ call.result.pc = "DescribeTags"
             /\ call.result.instance = FinalSegment(call.providerID)

\* the same for the provider ids whose final segment is not empty
InstanceIDOfNonEmptyFinalSegment ==
    (call.fn = "Dispatch" /\ cfg.Cloud = "aws"
        /\ FinalSegment(call.providerID) # <<>>) =>
        /\ call.result.pc = "DescribeTags"
        /\ call.result.instance = FinalSegment(call.providerID)

\* the '/'-separated segments of s, by the number of '/' before a character
SegmentCount(s) == Cardinality({i \in 1..Len(s) : s[i] = "/"}) + 1
Segment(s, n) ==
    LET idx == {j \in 1..Len(s) :
                   /\ s[j] # "/"
                   /\ Cardinality({i \in 1..j : s[i] = "/"}) = n - 1}
    IN  [j \in 1..Cardinality(idx) |->
            s[CHOOSE x \in idx : Cardinality({y \in idx : y < x}) = j - 1]]

HasGceScheme(s) ==
    /\ Len(s) >= Len(GcePrefix)
    /\ \A i \in 1..Len(GcePrefix) : s[i] = GcePrefix[i]
AfterScheme(s) == SubSeq(s, Len(GcePrefix) + 1, Len(s))
WellFormedGce(s) == HasGceScheme(s) /\ SegmentCount(AfterScheme(s)) >= 3

\* C20: parseGCPProviderID succeeds exactly on the ids that start with gce://
\* and have at least three '/'-separated segments after it, and returns the
\* first three of them as project, zone and instance; on any other id
\* syncGCPLabels returns an error without a remote call, and otherwise its
\* GetInstance addresses that project, zone and instance.
C20_ParseGCPProviderID ==
    LET id == call.providerID
        rest == AfterScheme(id)
    IN  /\ call.fn = "parseGCPProviderID" =>
              /\ call.result.ok <=> WellFormedGce(id)
              /\ call.result.ok =>
                    /\ call.result.project = Segment(rest, 1)
                    /\ call.result.zone = Segment(rest, 2)
                    /\ call.result.name = Segment(rest, 3)
        /\ (call.fn = "Dispatch" /\ cfg.Cloud = "gcp" /\ id # <<>>) =>
              IF WellFormedGce(id)
              THEN /\ call.result.pc = "GetInstance"
                   /\ call.result.instance =
                         <<Segment(rest, 1), Segment(rest, 2), Segment(rest, 3)>>
              ELSE /\ call.result.pc = "done"
                   /\ call.result.result = "error"
                   /\ call.result.calls = <<>>

\* an id with a fourth segment parsed: three segments returned, none empty
C20_Witness ==
    /\ call.fn = "parseGCPProviderID"
    /\ call.result.ok
    /\ SegmentCount(AfterScheme(call.providerID)) = 4
    /\ Segment(AfterScheme(call.providerID), 4) # <<>>
    /\ call.result.project # <<>>
    /\ call.result.zone # <<>>
    /\ call.result.name # <<>>

---------------------------------------------------------------------------
(* The sanitizing functions called directly: on keys and values made of a   *)
(* run of 'a' (none, or about MaxGCPLabelLen of them) followed by up to     *)
(* MaxTailLen characters, and on label maps of up to two entries.           *)

\* characters after the run of 'a'
MaxTailLen == 3

SanitizeChars == {"a", "A", "/", ".", "-", "_"}
Repeat(c, n) == [i \in 1..n |-> c]
RunLengths == {0} \cup ((MaxGCPLabelLen - MaxTailLen)..(MaxGCPLabelLen + 1))
SanitizeInputs ==
    {Repeat("a", n) \o t :
        n \in RunLengths,
        t \in UNION {[1..k -> SanitizeChars] : k \in 0..MaxTailLen}}

\* label maps: keys that need no sanitizing, that share a sanitized form, and
\* a long one; a short and a long value
SanitizeKeys == {<<"a">>, <<"A">>, <<"a", ".", "b">>, <<"a", "/">>,
                 Repeat("a", MaxGCPLabelLen + 1)}
SanitizeValues == {vProd, <<"P", ".">>, Repeat("b", MaxGCPLabelLen + 1)}
SanitizeLabelMaps ==
    UNION {[d -> SanitizeValues] : d \in {x \in SUBSET SanitizeKeys : Cardinality(x) <= 2}}

\* the map sanitizeLabelsForGCP may return: its loop ranges over a Go map, as
\* the one of addDesired
sanitizeLabelsForGCP(labels) == addDesired(EmptyMap, labels)

InitSanitize ==
    /\ cfg \in Configs
    /\ \/ \E s \in SanitizeInputs : call = [fn |-> "input", s |-> s]
       \/ \E m \in SanitizeLabelMaps : call = [fn |-> "input", labels |-> m]
    /\ node = [n \in NodeNames |-> Nil]
    /\ rv = 0
    /\ queue = {}
    /\ ec2Tags = [i \in Ec2Instances |-> EmptyMap]
    /\ gceInst = [i \in GceInstances |-> GceInstance(EmptyMap)]
    /\ pass = [w \in Workers |-> IdlePass]
    /\ settled = [n \in NodeNames |-> FALSE]

CallSanitizeKeyForGCP ==
    /\ call.fn = "input"
    /\ "s" \in DOMAIN call
    /\ call' = [fn |-> "sanitizeKeyForGCP", s |-> call.s,
                result |-> sanitizeKeyForGCP(call.s)]
    /\ UNCHANGED sysVars

CallSanitizeValueForGCP ==
    /\ call.fn = "input"
    /\ "s" \in DOMAIN call
    /\ call' = [fn |-> "sanitizeValueForGCP", s |-> call.s,
                result |-> sanitizeValueForGCP(call.s)]
    /\ UNCHANGED sysVars

CallSanitizeLabelsForGCP ==
    /\ call.fn = "input"
    /\ "labels" \in DOMAIN call
    /\ \E result \in sanitizeLabelsForGCP(call.labels) :
          call' = [fn |-> "sanitizeLabelsForGCP", labels |-> call.labels,
                   result |-> result]
    /\ UNCHANGED sysVars

\* sanitizeKeyForGCP called on a key it returned
CallSanitizeKeyForGCPAgain ==
    /\ call.fn = "sanitizeKeyForGCP"
    /\ call' = [fn |-> "sanitizeKeyForGCP again", s |-> call.s,
                result |-> call.result,
                again |-> sanitizeKeyForGCP(call.result)]
    /\ UNCHANGED sysVars

NextSanitize ==
    \/ CallSanitizeKeyForGCP
    \/ CallSanitizeKeyForGCPAgain
    \/ CallSanitizeValueForGCP
    \/ CallSanitizeLabelsForGCP

SpecSanitize == InitSanitize /\ [][NextSanitize]_vars

---------------------------------------------------------------------------
(* C21, C22, C30: the sanitizing functions, under SpecSanitize.            *)

\* the steps of the key sanitizing, each by what it leaves
Substituted(key) ==
    [i \in 1..Len(key) |->
        LET c == LowerChar(key[i])
        IN  IF c = "/" THEN "_" ELSE IF c = "." THEN "-" ELSE c]
WithoutTrailingRun(s) ==
    LET ends == {n \in 0..Len(s) :
                    /\ n = 0 \/ s[n] \notin {"-", "_"}
                    /\ \A m \in (n + 1)..Len(s) : s[m] \in {"-", "_"}}
    IN  SubSeq(s, 1, CHOOSE n \in ends : TRUE)
FirstChars(s, n) == [i \in 1..(IF Len(s) < n THEN Len(s) ELSE n) |-> s[i]]

\* C21: sanitizeKeyForGCP(key) is the key lowercased, with every '/' replaced
\* by '_' and every '.' by '-', without its trailing run of '-' and '_', cut
\* to its first 63 characters; it has at most 63 characters, none of them a
\* '/', a '.' or an uppercase ASCII letter.
C21_SanitizeKey ==
    call.fn = "sanitizeKeyForGCP" =>
        /\ call.result =
              FirstChars(WithoutTrailingRun(Substituted(call.s)), MaxGCPLabelLen)
        /\ Len(call.result) <= MaxGCPLabelLen
        /\ \A i \in 1..Len(call.result) :
              call.result[i] \notin {"/", "."} \cup Range(UpperChars)

\* a key of more than 63 characters after the removal of its trailing run,
\* with an uppercase letter, a '/' or a '.', and a trailing '-' or '_'
C21_Witness ==
    /\ call.fn = "sanitizeKeyForGCP"
    /\ Len(WithoutTrailingRun(Substituted(call.s))) > MaxGCPLabelLen
    /\ call.s[Len(call.s)] \in {"-", "_"}
    /\ \E i \in 1..Len(call.s) : call.s[i] \in {"A", "/", "."}
    /\ Len(call.result) = MaxGCPLabelLen

\* C22: the key sanitizeKeyForGCP returns does not end with '-' or '_'.
C22_NoTrailingDashOrUnderscore ==
    call.fn = "sanitizeKeyForGCP" =>
        \/ call.result = <<>>
        \/ call.result[Len(call.result)] \notin {"-", "_"}

\* the same for the keys that are not cut
UncutKeyHasNoTrailingDashOrUnderscore ==
    (call.fn = "sanitizeKeyForGCP"
        /\ Len(WithoutTrailingRun(Substituted(call.s))) <= MaxGCPLabelLen) =>
        \/ call.result = <<>>
        \/ call.result[Len(call.result)] \notin {"-", "_"}

\* the keys of a map that have the sanitized form t
KeysWithForm(labels, t) == {k \in DOMAIN labels : sanitizeKeyForGCP(k) = t}

---------------------------------------------------------------------------
(* C23..C25, C29: the calls of a pass, under SpecSync.                     *)

\* the calls of a pass, by their names in order
Ops(p) == [i \in 1..Len(p.calls) |-> p.calls[i].op]

\* C23: a tag-provider pass issues at most one CreateTags and at most one
\* DeleteTags; once it returned after its DescribeTags, it has issued
\* CreateTags exactly if the create batch is not empty and, unless CreateTags
\* failed, DeleteTags exactly if the delete batch is not empty; when the
\* fetched monitored tags equal the Desired State it has issued DescribeTags
\* only.
C23_TagCallMinimality ==
    \A w \in Workers :
        LET p == pass[w]
            desired == DesiredState(p.nodeRead, cfg)
            create == CreateBatch(desired, p.fetched)
            delete == DeleteBatch(desired, p.fetched, cfg)
            createFailed == \E i \in Issued(p, {"CreateTags"}) : ~p.calls[i].ok
        IN  /\ Cardinality(Issued(p, {"CreateTags"})) <= 1
            /\ Cardinality(Issued(p, {"DeleteTags"})) <= 1
            /\ (Described(p) /\ p.pc = "done") =>
                  /\ (Issued(p, {"CreateTags"}) # {}) <=> (create # {})
                  /\ ~createFailed =>
                        ((Issued(p, {"DeleteTags"}) # {}) <=> (delete # {}))
                  /\ (\A k \in Monitored(cfg) : SameAt(p.fetched, desired, k)) =>
                        Ops(p) = <<"DescribeTags">>

\* a pass returned after DescribeTags alone: the instance has the tag of the
\* Desired State already, and a tag of somebody else
C23_Witness ==
    \E w \in Workers :
        LET p == pass[w]
        IN  /\ Described(p) /\ p.pc = "done"
            /\ Ops(p) = <<"DescribeTags">>
            /\ DesiredState(p.nodeRead, cfg) # EmptyMap
            /\ kCostCenter \in DOMAIN p.fetched

\* C24: a label-provider pass goes on to SetLabels after its GetInstance
\* exactly if the map it computed differs from the map it fetched, a map
\* without entries being equal to another without entries.
C24_NoOpSkip ==
    \A w \in Workers :
        LET p == pass[w]
        IN  /\ Issued(p, {"SetLabels"}) # {} => Fetched(p)
            /\ Fetched(p) =>
                  (p.pc = "SetLabels" \/ Issued(p, {"SetLabels"}) # {})
                     <=> (p.newLabels # p.fetched)

\* an instance without labels and a node with an empty Desired State: the pass
\* returned success after GetInstance alone
C24_Witness ==
    \E w \in Workers :
        LET p == pass[w]
        IN  /\ Fetched(p) /\ Synced(p)
            /\ p.fetched = EmptyMap
            /\ DesiredState(p.nodeRead, cfg) = EmptyMap
            /\ Ops(p) = <<"GetInstance">>

\* the place of a call in the order of its provider
Rank(op) ==
    CASE op \in {"DescribeTags", "GetInstance"} -> 1
      [] op \in {"CreateTags", "SetLabels"} -> 2
      [] op = "DeleteTags" -> 3

\* C25: the calls of a pass are issued one after the other, each after the
\* one before it returned without error, in the order DescribeTags, CreateTags,
\* DeleteTags for the tag provider and GetInstance, SetLabels for the label
\* provider; a mutating call follows a fetch of the same pass, and no
\* DeleteTags follows a CreateTags that failed.
C25_CallOrder ==
    \A w \in Workers :
        LET p == pass[w]
        IN  /\ \A i \in 1..Len(p.calls) :
                  p.calls[i].op \in
                     IF cfg.Cloud = "aws"
                     THEN {"DescribeTags", "CreateTags", "DeleteTags"}
                     ELSE {"GetInstance", "SetLabels"}
            /\ \A i, j \in 1..Len(p.calls) :
                  i < j => /\ Rank(p.calls[i].op) < Rank(p.calls[j].op)
                           /\ p.calls[i].ok
            /\ \A j \in Issued(p, Mutating) :
                  \E i \in Applied(p, Fetching) : i < j
            /\ (\E i \in Issued(p, {"CreateTags"}) : ~p.calls[i].ok) =>
                  Issued(p, {"DeleteTags"}) = {}
            /\ p.pc \in {"CreateTags", "DeleteTags", "SetLabels"} =>
                  Applied(p, Fetching) # {}

\* a pass made the three calls of the tag provider
C25_Witness ==
    \E w \in Workers :
        Ops(pass[w]) = <<"DescribeTags", "CreateTags", "DeleteTags">>

\* C29: the label map of the instance a pass fetched has, from the return of
\* GetInstance on and whatever the pass does after it, the entries GetInstance
\* returned, and the pass compares the map it computed with these.
C29_FetchedMapUnmodified ==
    \A w \in Workers :
        LET p == pass[w]
        IN  Fetched(p) =>
               /\ p.fetched = p.remoteBefore
               /\ Fingerprint(p.fetched) = p.fingerprint
               /\ (p.pc = "SetLabels" \/ Issued(p, {"SetLabels"}) # {})
                     <=> (p.newLabels # p.remoteBefore)

\* a pass wrote labels that differ from the ones it fetched, on an instance
\* that had labels
C29_Witness ==
    \E w \in Workers :
        LET p == pass[w]
        IN  /\ Fetched(p)
            /\ Applied(p, {"SetLabels"}) # {}
            /\ p.fetched # EmptyMap
            /\ p.fetched # p.newLabels

---------------------------------------------------------------------------
(* Cancellation.  The context Reconcile is given may be cancelled at any    *)
(* moment of a pass; Reconcile hands it to every call it makes and does not *)
(* look at it itself.  What a call does with a cancelled context is the     *)
(* client's matter: it fails, or it goes through (as any call may).         *)

\* the context of the pass of worker w is cancelled
Cancel(w) ==
    /\ pass[w].pc \notin {"idle", "done"}
    /\ ~pass[w].cancelled
    /\ pass' = [pass EXCEPT ![w] = [@ EXCEPT !.cancelled = TRUE,
                                             !.callsAtCancel = Len(pass[w].calls)]]
    /\ UNCHANGED <<cfg, node, rv, queue, ec2Tags, gceInst, settled, call>>

\* one pass over a node, as in InitSync
NextCancel ==
    \/ \E w \in Workers : StartReconcile(w)
    \/ \E w \in Workers : DescribeTags(w)
    \/ \E w \in Workers : CreateTags(w)
    \/ \E w \in Workers : DeleteTags(w)
    \/ \E w \in Workers : GetInstance(w)
    \/ \E w \in Workers : SetLabels(w)
    \/ \E w \in Workers : FinishReconcile(w)
    \/ \E w \in Workers : Cancel(w)

SpecCancel == InitSync /\ [][NextCancel]_vars

---------------------------------------------------------------------------
(* C26: cancellation, under SpecCancel.                                    *)

\* C26: a pass whose context was cancelled after one of its remote calls
\* returned and before the next issues no further remote call and returns an
\* error.
C26_CancelBetweenCalls ==
    \A w \in Workers :
        LET p == pass[w]
        IN  (p.cancelled /\ p.callsAtCancel >= 1) =>
               /\ Len(p.calls) = p.callsAtCancel
               /\ p.pc = "done" => p.result = "error"

---------------------------------------------------------------------------
(* Overlapping passes for one node.  The queue of the controller runtime    *)
(* gives a name to one worker at a time; here a second worker may take a    *)
(* name while a pass for it is running.  Tag provider, a node that is       *)
(* updated while passes run, no other writer.                               *)

OverlapWorkers == {"w1", "w2"}

InitOverlap ==
    /\ cfg \in {c \in Configs : c.Cloud = "aws"}
    /\ ec2Tags \in [Ec2Instances -> FewRemotes]
    /\ gceInst = [i \in GceInstances |-> GceInstance(EmptyMap)]
    /\ \E n \in NodeNames :
          \E labels \in MapsOver(Range(cfg.Labels)) :
             /\ node = [m \in NodeNames |->
                          IF m = n
                          THEN NodeObject(n, labels, EmptyMap, AwsProviderID, 1)
                          ELSE Nil]
             /\ queue = {n}
    /\ rv = 1
    /\ pass = [w \in OverlapWorkers |-> IdlePass]
    /\ settled = [n \in NodeNames |-> FALSE]
    /\ call = NoCall

\* the pass is for the name and has not computed its result yet
Running(p, name) == p.pc \notin {"idle", "done"} /\ p.name = name

\* a worker takes a name while another pass for it is running: both passes
\* are marked as overlapping
StartReconcileOverlapping(w) ==
    /\ pass[w].pc = "idle"
    /\ \E name \in queue :
          /\ \E v \in DOMAIN pass : Running(pass[v], name)
          /\ node[name] # Nil
          /\ queue' = queue \ {name}
          /\ pass' = [v \in DOMAIN pass |->
                        IF v = w
                        THEN [Dispatch([IdlePass EXCEPT !.name = name], node[name], cfg)
                                 EXCEPT !.overlapped = TRUE]
                        ELSE IF Running(pass[v], name)
                        THEN [pass[v] EXCEPT !.overlapped = TRUE]
                        ELSE pass[v]]
    /\ UNCHANGED <<cfg, node, rv, ec2Tags, gceInst, settled, call>>

NextOverlap ==
    \/ \E n \in NodeNames : NodeUpdate(n)
    \/ \E w \in OverlapWorkers : StartReconcile(w)
    \/ \E w \in OverlapWorkers : StartReconcileOverlapping(w)
    \/ \E w \in OverlapWorkers : DescribeTags(w)
    \/ \E w \in OverlapWorkers : CreateTags(w)
    \/ \E w \in OverlapWorkers : DeleteTags(w)
    \/ \E w \in OverlapWorkers : FinishReconcile(w)

SpecOverlap == InitOverlap /\ [][NextOverlap]_vars

---------------------------------------------------------------------------
(* C27: overlapping passes, under SpecOverlap.                             *)

\* the monitored tags of the instance of node version n are not the Desired
\* State of n
TagsDifferFromDesired(n) ==
    \E k \in Monitored(cfg) :
        ~SameAt(Ec2TagsOf(PathBase(n.ProviderID)), DesiredState(n, cfg), k)

\* the later of the node versions two passes read
LatestRead(p, q) ==
    IF p.nodeRead.ResourceVersion > q.nodeRead.ResourceVersion
    THEN p.nodeRead ELSE q.nodeRead

\* two passes for one node that read different versions of it have both
\* returned success
BothSynced(p, q) ==
    /\ Synced(p) /\ Synced(q)
    /\ p.name = q.name
    /\ p.nodeRead # q.nodeRead

\* C27: the tag provider is last-write-wins.  When two passes for one node
\* that read different versions of it have both returned success, neither ran
\* while another pass for the node did, and nobody else writes, the monitored
\* tags equal the Desired State of the later version; when the two overlapped
\* the tags may differ from it (the witness).
C27_LastWriteWins ==
    \A w1, w2 \in OverlapWorkers :
        LET p == pass[w1]
            q == pass[w2]
        IN  (BothSynced(p, q) /\ ~p.overlapped /\ ~q.overlapped) =>
               ~TagsDifferFromDesired(LatestRead(p, q))

\* two overlapping passes for one node, which read different versions of it,
\* have both returned success, and the monitored tags differ from the Desired
\* State of the later version
C27_Witness ==
    \E w1, w2 \in OverlapWorkers :
        LET p == pass[w1]
            q == pass[w2]
        IN  /\ BothSynced(p, q)
            /\ p.overlapped /\ q.overlapped
            /\ TagsDifferFromDesired(LatestRead(p, q))

\* two passes for one node, one after the other, have both returned success
C27_SerializedWitness ==
    \E w1, w2 \in OverlapWorkers :
        LET p == pass[w1]
            q == pass[w2]
        IN  /\ BothSynced(p, q)
            /\ ~p.overlapped /\ ~q.overlapped
            /\ p.calls # <<>> /\ q.calls # <<>>
            /\ DesiredState(p.nodeRead, cfg) # DesiredState(q.nodeRead, cfg)

---------------------------------------------------------------------------
(* Concurrent passes for distinct nodes.  Two nodes whose provider ids     *)
(* name two instances, two workers, one pass for each node, two monitored  *)
(* keys, no other writer.                                                  *)

DistinctNodes == {"node1", "node2"}
DistinctWorkers == {"w1", "w2"}

\* the provider id of each node: the instances i and j
DistinctProviderID(cloud, n) ==
    IF cloud = "aws"
    THEN IF n = "node1" THEN AwsProviderID
         ELSE <<"a","w","s",":","/","/","/","z","/","j">>
    ELSE IF n = "node1" THEN GceProviderID
         ELSE <<"g","c","e",":","/","/","p","/","z","/","j">>

DistinctEc2Instances == {<<"i">>, <<"j">>}
DistinctGceInstances == {<< <<"p">>, <<"z">>, <<"i">> >>, << <<"p">>, <<"z">>, <<"j">> >>}

InitDistinct ==
    /\ cfg \in RecoverConfigs
    /\ IF cfg.Cloud = "aws"
       THEN /\ ec2Tags \in [DistinctEc2Instances -> FewRemotes]
            /\ gceInst = [i \in DistinctGceInstances |-> GceInstance(EmptyMap)]
       ELSE /\ ec2Tags = [i \in DistinctEc2Instances |-> EmptyMap]
            /\ gceInst \in {[i \in DistinctGceInstances |-> GceInstance(f[i])]
                            : f \in [DistinctGceInstances -> FewRemotes]}
    /\ \E labels \in [DistinctNodes -> MapsOver(NodeLabelKeys(cfg))],
          annotations \in [DistinctNodes -> MapsOver(NodeAnnotationKeys(cfg))] :
          node = [n \in DistinctNodes |->
                    NodeObject(n, labels[n], annotations[n],
                               DistinctProviderID(cfg.Cloud, n), 1)]
    /\ rv = 1
    /\ queue = DistinctNodes
    /\ pass = [w \in DistinctWorkers |-> IdlePass]
    /\ settled = [n \in DistinctNodes |-> FALSE]
    /\ call = NoCall

NextDistinct ==
    \/ \E w \in DistinctWorkers : StartReconcile(w)
    \/ \E w \in DistinctWorkers : DescribeTags(w)
    \/ \E w \in DistinctWorkers : CreateTags(w)
    \/ \E w \in DistinctWorkers : DeleteTags(w)
    \/ \E w \in DistinctWorkers : GetInstance(w)
    \/ \E w \in DistinctWorkers : SetLabels(w)
    \/ \E w \in DistinctWorkers : FinishReconcile(w)

SpecDistinct == InitDistinct /\ [][NextDistinct]_vars

---------------------------------------------------------------------------
(* C28: concurrent passes for distinct nodes, under SpecDistinct.          *)

\* the instance the provider id of node version n names
InstanceOfNode(n, r) ==
    IF r.Cloud = "aws" THEN PathBase(n.ProviderID)
    ELSE LET parsed == parseGCPProviderID(n.ProviderID)
         IN  <<parsed.project, parsed.zone, parsed.name>>

\* the tags or labels left by the write calls of a pass that took effect,
\* applied one after the other to the tags or labels the pass fetched
RECURSIVE Replay(_, _, _)
Replay(remote, calls, i) ==
    IF i > Len(calls) THEN remote
    ELSE LET c == calls[i]
         IN  Replay(IF ~c.ok THEN remote
                    ELSE IF c.op = "CreateTags" THEN ApplyCreateTags(remote, c.arg)
                    ELSE IF c.op = "DeleteTags" THEN ApplyDeleteTags(remote, c.arg)
                    ELSE IF c.op = "SetLabels" THEN c.arg.Labels
                    ELSE remote,
                    calls, i + 1)

\* what a pass for node version n that runs alone and returns success leaves
\* on an instance with the tags or labels remote
Sequential(n, remote, r) ==
    LET desiredTags == tagsToSyncOf(n, r)
    IN  IF r.Cloud = "aws"
        THEN LET diff == syncAWSTagsDiff(remote, desiredTags, r)
             IN  {ApplyDeleteTags(ApplyCreateTags(remote, diff.toAdd), diff.toDelete)}
        ELSE newLabelsOf(remote, desiredTags, r)

\* the pass has fetched the tags or labels of its instance
HasFetched(p) == Applied(p, {"DescribeTags", "GetInstance"}) # {}

\* a step changes the record of at most one pass, and changes the tags or
\* labels of an instance only in a step of the pass whose node names it
OwnStateOnly ==
    /\ \A w, v \in DOMAIN pass :
          (pass'[w] # pass[w] /\ pass'[v] # pass[v]) => w = v
    /\ \A i \in DOMAIN ec2Tags :
          ec2Tags'[i] # ec2Tags[i] =>
             \E w \in DOMAIN pass :
                /\ pass'[w] # pass[w]
                /\ pass[w].nodeRead # Nil
                /\ i = InstanceOfNode(pass[w].nodeRead, cfg)
    /\ \A i \in DOMAIN gceInst :
          gceInst'[i] # gceInst[i] =>
             \E w \in DOMAIN pass :
                /\ pass'[w] # pass[w]
                /\ pass[w].nodeRead # Nil
                /\ i = InstanceOfNode(pass[w].nodeRead, cfg)

\* every call of a pass addresses the instance its node names; the instance
\* has what the pass fetched with the pass's own writes applied; after a
\* successful pass it has what the pass would have left running alone
OwnInstanceOnly ==
    \A w \in DOMAIN pass :
        LET p == pass[w]
        IN  /\ \A i \in 1..Len(p.calls) :
                  p.calls[i].target = InstanceOfNode(p.nodeRead, cfg)
            /\ HasFetched(p) =>
                  RemoteOf(p.nodeRead, cfg) = Replay(p.remoteBefore, p.calls, 1)
            /\ (HasFetched(p) /\ Synced(p)) =>
                  RemoteOf(p.nodeRead, cfg) \in Sequential(p.nodeRead, p.remoteBefore, cfg)

\* C28: passes that run concurrently for distinct nodes whose provider ids
\* name distinct instances do not interfere: a step changes the in-process
\* state of one pass only, every remote call of a pass addresses the instance
\* parsed from the pass's node, an instance changes only through the pass of
\* its node, and the final state of each instance is the one the pass leaves
\* when it runs alone, whatever the order.
C28_DistinctNodesIndependent == []OwnInstanceOnly /\ [][OwnStateOnly]_vars

\* two passes for two nodes are both between their remote calls, each having
\* changed its own instance already
C28_Witness ==
    \E w1, w2 \in DOMAIN pass :
        /\ w1 # w2
        /\ pass[w1].pc = "DeleteTags" /\ pass[w2].pc = "DeleteTags"
        /\ Applied(pass[w1], {"CreateTags"}) # {}
        /\ Applied(pass[w2], {"CreateTags"}) # {}
        /\ pass[w1].instance # pass[w2].instance

---------------------------------------------------------------------------
(* C36: the segments parseGCPProviderID returns, under SpecParse.          *)

\* C36: when parseGCPProviderID succeeds, the project, the zone and the
\* instance name it returns are all non-empty.
C36_ParsedSegmentsNonEmpty ==
    (call.fn = "parseGCPProviderID" /\ call.result.ok) =>
        /\ call.result.project # <<>>
        /\ call.result.zone # <<>>
        /\ call.result.name # <<>>

\* the same for the identifiers whose first three segments are not empty
ParsedSegmentsOfNonEmptySegments ==
    LET rest == AfterScheme(call.providerID)
    IN  (/\ call.fn = "parseGCPProviderID"
         /\ call.result.ok
         /\ \A i \in 1..3 : Segment(rest, i) # <<>>) =>
            /\ call.result.project # <<>>
            /\ call.result.zone # <<>>
            /\ call.result.name # <<>>

---------------------------------------------------------------------------
(* C37: sanitizeKeyForGCP applied twice, under SpecSanitize.               *)

\* C37: sanitizeKeyForGCP is idempotent: applied to a key it returned, it
\* returns that key.
C37_SanitizeKeyIdempotent ==
    call.fn = "sanitizeKeyForGCP again" => call.again = call.result

\* the same for the keys that are not cut
UncutKeySanitizeIdempotent ==
    (call.fn = "sanitizeKeyForGCP again"
        /\ Len(WithoutTrailingRun(Substituted(call.s))) <= MaxGCPLabelLen) =>
        call.again = call.result

---------------------------------------------------------------------------
(* C34: the two batches of a tag-provider pass, under SpecSync.            *)

\* the keys of a batch
BatchKeys(batch) == {t.Key : t \in batch}

\* the batches the pass sent with CreateTags, and with DeleteTags
SentBatches(p, op) == {p.calls[i].arg : i \in Issued(p, {op})}

\* C34: in every tag-provider pass the keys of the CreateTags batch and the
\* keys of the DeleteTags batch are disjoint, no key occurs twice in a batch,
\* every CreateTags key is a key of the Desired State and no DeleteTags key is:
\* for the batches the pass computed and for the ones it sent.
C34_BatchesDisjoint ==
    \A w \in Workers :
        LET p == pass[w]
            desired == DOMAIN DesiredState(p.nodeRead, cfg)
            creates == {p.toAdd} \cup SentBatches(p, "CreateTags")
            deletes == {p.toDelete} \cup SentBatches(p, "DeleteTags")
        IN  Described(p) =>
               /\ \A c \in creates :
                     /\ BatchKeys(c) \subseteq desired
                     /\ Cardinality(BatchKeys(c)) = Cardinality(c)
               /\ \A d \in deletes :
                     /\ BatchKeys(d) \cap desired = {}
                     /\ Cardinality(BatchKeys(d)) = Cardinality(d)
               /\ \A c \in creates, d \in deletes :
                     BatchKeys(c) \cap BatchKeys(d) = {}

\* a pass sent a CreateTags and a DeleteTags batch
C34_Witness ==
    \E w \in Workers :
        LET p == pass[w]
        IN  /\ Described(p)
            /\ Issued(p, {"CreateTags"}) # {}
            /\ Issued(p, {"DeleteTags"}) # {}

---------------------------------------------------------------------------
(* C35: what a label-provider pass sends, under SpecSync.                  *)

\* the outcomes syncGCPLabels may reach from the labels it fetched: the map
\* it would send, and whether it sends it
LabelOutcomes(p) ==
    {[newLabels |-> m.newLabels, sends |-> m.instanceLabels # m.newLabels] :
        m \in syncGCPLabelsMaps(p.fetched, p.tagsToSync, cfg)}

\* two keys of the Desired State with different values have the same
\* sanitized form
DesiredCollides(desired) ==
    \E k1, k2 \in DOMAIN desired :
        /\ k1 # k2
        /\ sanitizeKeyForGCP(k1) = sanitizeKeyForGCP(k2)
        /\ sanitizeValueForGCP(desired[k1]) # sanitizeValueForGCP(desired[k2])

\* C35: in a label-provider pass the monitored keys, the Desired State and
\* the fetched labels determine the label map SetLabels would send and
\* whether it is sent, also when two Desired State keys with different values
\* have the same sanitized form.
C35_LabelMapDetermined ==
    \A w \in Workers :
        Fetched(pass[w]) => Cardinality(LabelOutcomes(pass[w])) = 1

\* the same for the Desired States without such keys
LabelMapDeterminedWithoutCollision ==
    \A w \in Workers :
        (Fetched(pass[w]) /\ ~DesiredCollides(pass[w].tagsToSync)) =>
            Cardinality(LabelOutcomes(pass[w])) = 1

---------------------------------------------------------------------------
(* The start of the program: main calls SetupCloudProvider and starts the  *)
(* manager, and with it the reconcile workers, only when it returned no    *)
(* error.  The -cloud flag has any value.                                  *)

SetupClouds == {"aws", "gcp", "azure", ""}
SetupConfigs ==
    {[Cloud |-> c, Labels |-> <<kEnv>>, Annotations |-> <<>>] : c \in SetupClouds}

\* as SetupCloudProvider, without the default case
SetupCloudProviderNoDefault(r) ==
    CASE r.Cloud = "aws" -> {"nil", "unable to load AWS config"}
      [] r.Cloud = "gcp" -> {"nil", "unable to create GCP client"}
      [] OTHER -> {"nil"}

\* the errors SetupCloudProvider may return: building the client may fail
SetupCloudProvider(r) ==
    CASE r.Cloud = "aws" -> {"nil", "unable to load AWS config"}
      [] r.Cloud = "gcp" -> {"nil", "unable to create GCP client"}
      [] OTHER -> {"unsupported cloud provider"}

InitSetup ==
    /\ cfg \in SetupConfigs
    /\ IF cfg.Cloud = "aws"
       THEN /\ ec2Tags \in [Ec2Instances -> FewRemotes]
            /\ gceInst = [i \in GceInstances |-> GceInstance(EmptyMap)]
       ELSE /\ ec2Tags = [i \in Ec2Instances |-> EmptyMap]
            /\ gceInst \in {[i \in GceInstances |-> GceInstance(f[i])]
                            : f \in [GceInstances -> FewRemotes]}
    /\ \E n \in NodeNames :
          \E labels \in MapsOver(NodeLabelKeys(cfg)),
             providerID \in ProviderIDs(cfg.Cloud) :
             /\ node = [m \in NodeNames |->
                          IF m = n
                          THEN NodeObject(n, labels, EmptyMap, providerID, 1)
                          ELSE Nil]
             /\ queue = {n}
    /\ rv = 1
    /\ pass = [w \in Workers |-> IdlePass]
    /\ settled = [n \in NodeNames |-> FALSE]
    /\ call = [fn |-> "main"]

\* main calls SetupCloudProvider
CallSetupCloudProvider ==
    /\ call.fn = "main"
    /\ \E err \in SetupCloudProvider(cfg) :
          call' = [fn |-> "SetupCloudProvider", err |-> err]
    /\ UNCHANGED sysVars

\* main exits when SetupCloudProvider returned an error
Exit ==
    /\ call.fn = "SetupCloudProvider"
    /\ call.err # "nil"
    /\ call' = [fn |-> "exit"]
    /\ UNCHANGED sysVars

\* the manager started: a worker takes a name from the queue
StartReconcileAfterSetup(w) ==
    /\ call.fn = "SetupCloudProvider"
    /\ call.err = "nil"
    /\ StartReconcile(w)

NextSetup ==
    \/ CallSetupCloudProvider
    \/ Exit
    \/ \E w \in Workers : StartReconcileAfterSetup(w)
    \/ \E w \in Workers : DescribeTags(w)
    \/ \E w \in Workers : CreateTags(w)
    \/ \E w \in Workers : DeleteTags(w)
    \/ \E w \in Workers : GetInstance(w)
    \/ \E w \in Workers : SetLabels(w)
    \/ \E w \in Workers : FinishReconcile(w)

SpecSetup == InitSetup /\ [][NextSetup]_vars

---------------------------------------------------------------------------
(* C33: success means the provider was asked, under SpecSetup.             *)

\* the fetch call of the provider the controller is configured for
FetchOps(r) ==
    CASE r.Cloud = "aws" -> {"DescribeTags"}
      [] r.Cloud = "gcp" -> {"GetInstance"}
      [] OTHER -> {}

\* C33: whenever Reconcile returns success for an existing node with a
\* non-empty provider identifier, the fetch call of the configured provider
\* was issued and succeeded in that pass, whatever the value of the Cloud
\* setting the program was started with.
C33_SuccessMeansFetched ==
    \A w \in Workers :
        Synced(pass[w]) => Applied(pass[w], FetchOps(cfg)) # {}

\* a pass returned success after its fetch
C33_Witness ==
    \E w \in Workers :
        /\ Synced(pass[w])
        /\ call.fn = "SetupCloudProvider"
        /\ Applied(pass[w], FetchOps(cfg)) # {}

\* the program was started with another Cloud value and has exited with no
\* pass begun
OtherCloudExits ==
    (cfg.Cloud \notin {"aws", "gcp"}) =>
        /\ call.fn \in {"main", "SetupCloudProvider", "exit"}
        /\ (call.fn = "SetupCloudProvider" => call.err # "nil")
        /\ \A w \in Workers : pass[w] = IdlePass

---------------------------------------------------------------------------
(* Passes after a failed pass.  One node that does not change, two         *)
(* monitored keys, two workers so that the record of a returned pass is    *)
(* still there when the next pass runs; the queue gives the name to one    *)
(* worker at a time, resync events enqueue it again, nobody else writes.   *)

HealWorkers == {"w1", "w2"}

InitHeal ==
    /\ cfg \in RecoverConfigs
    /\ IF cfg.Cloud = "aws"
       THEN /\ ec2Tags \in [Ec2Instances -> FewRemotes]
            /\ gceInst = [i \in GceInstances |-> GceInstance(EmptyMap)]
       ELSE /\ ec2Tags = [i \in Ec2Instances |-> EmptyMap]
            /\ gceInst \in {[i \in GceInstances |-> GceInstance(f[i])]
                            : f \in [GceInstances -> FewRemotes]}
    /\ \E n \in NodeNames :
          \E labels \in MapsOver(NodeLabelKeys(cfg)),
             annotations \in MapsOver(NodeAnnotationKeys(cfg)) :
             /\ node = [m \in NodeNames |->
                          IF m = n
                          THEN NodeObject(n, labels, annotations,
                                          IF cfg.Cloud = "aws" THEN AwsProviderID
                                          ELSE GceProviderID, 1)
                          ELSE Nil]
             /\ queue = {n}
    /\ rv = 1
    /\ pass = [w \in HealWorkers |-> IdlePass]
    /\ settled = [n \in NodeNames |-> FALSE]
    /\ call = NoCall

NextHeal ==
    \/ \E n \in NodeNames : Resync(n)
    \/ \E w \in HealWorkers : StartReconcile(w)
    \/ \E w \in HealWorkers : DescribeTags(w)
    \/ \E w \in HealWorkers : CreateTags(w)
    \/ \E w \in HealWorkers : DeleteTags(w)
    \/ \E w \in HealWorkers : GetInstance(w)
    \/ \E w \in HealWorkers : SetLabels(w)
    \/ \E w \in HealWorkers : FinishReconcile(w)

SpecHeal == InitHeal /\ [][NextHeal]_vars

---------------------------------------------------------------------------
(* C31: the pass after a partial failure, under SpecHeal.                  *)

\* a tag-provider pass returned an error after its CreateTags was applied and
\* its DeleteTags failed
FailedOnDeleteTags(p) ==
    /\ p.pc = "done" /\ p.result = "error"
    /\ Applied(p, {"CreateTags"}) # {}
    /\ Issued(p, {"DeleteTags"}) # {}
    /\ Applied(p, {"DeleteTags"}) = {}

\* a label-provider pass returned an error from SetLabels
FailedOnSetLabels(p) ==
    /\ p.pc = "done" /\ p.result = "error"
    /\ Issued(p, {"SetLabels"}) # {}
    /\ Applied(p, {"SetLabels"}) = {}

\* pass q is for the node of pass p and fetched what p left on the instance
NextPassAfter(p, q) ==
    /\ q.name = p.name
    /\ q.nodeRead = p.nodeRead
    /\ HasFetched(q)
    /\ q.remoteBefore = Replay(p.remoteBefore, p.calls, 1)

\* C31: when a tag-provider pass failed after its CreateTags was applied and
\* its DeleteTags failed, or a label-provider pass failed on SetLabels, a
\* later pass for the unchanged node that fetched what the failed pass left
\* and returned success leaves the monitored keys equal to the Desired State,
\* and it sent only what was still missing: no CreateTags and the DeleteTags
\* batch of the failed pass, or the SetLabels request of the failed pass.
C31_SelfHealing ==
    \A w1, w2 \in HealWorkers :
        LET p == pass[w1]
            q == pass[w2]
        IN  /\ (FailedOnDeleteTags(p) /\ NextPassAfter(p, q) /\ Synced(q)) =>
                  /\ RemoteEqualsDesired(q.nodeRead, cfg)
                  /\ Issued(q, {"CreateTags"}) = {}
                  /\ SentBatches(q, "DeleteTags") = {p.toDelete}
            /\ (FailedOnSetLabels(p) /\ NextPassAfter(p, q) /\ Synced(q)) =>
                  /\ RemoteEqualsDesired(q.nodeRead, cfg)
                  /\ SentBatches(q, "SetLabels") = {SetLabelsRequest(p)}

\* a pass failed on DeleteTags after its CreateTags, and the next pass
\* returned success
C31_Witness ==
    \E w1, w2 \in HealWorkers :
        /\ FailedOnDeleteTags(pass[w1])
        /\ NextPassAfter(pass[w1], pass[w2])
        /\ Synced(pass[w2])

\* a pass failed on SetLabels, and the next pass returned success
HealedAfterSetLabels ==
    \E w1, w2 \in HealWorkers :
        /\ FailedOnSetLabels(pass[w1])
        /\ NextPassAfter(pass[w1], pass[w2])
        /\ Synced(pass[w2])

---------------------------------------------------------------------------
(* C32: a provider id assigned after the first pass, under Spec.           *)

\* the step assigns the provider id of node n and changes no label and no
\* annotation
ProviderIDAssigned(n) ==
    /\ node[n] # Nil /\ node'[n] # Nil
    /\ node[n].ProviderID = NoProviderID
    /\ node'[n].ProviderID # NoProviderID
    /\ node'[n].ResourceVersion # node[n].ResourceVersion
    /\ node'[n].Labels = node[n].Labels
    /\ node'[n].Annotations = node[n].Annotations

\* the step puts the name n into the queue
Enqueued(n) == n \notin queue /\ n \in queue'

\* the assignment of the provider id enqueues nothing; a name is enqueued only
\* by a create event, by an event with the old object as the new one, or by
\* an update that changes a monitored key; a worker that returns enqueues
\* nothing; and a pass starts only for a name of the queue
OnlyEventsEnqueue ==
    /\ \A n \in NodeNames : ProviderIDAssigned(n) => ~Enqueued(n)
    /\ \A n \in NodeNames :
          Enqueued(n) =>
             \/ node[n] = Nil /\ node'[n] # Nil
             \/ node[n] # Nil /\ node'[n] = node[n] /\ HasMonitored(node[n], cfg)
             \/ node[n] # Nil /\ node'[n] # Nil
                   /\ MonitoredDiffers(node[n], node'[n], cfg)
    /\ \A w \in Workers :
          (pass[w].pc = "done" /\ pass'[w].pc = "idle") => queue' = queue
    /\ \A w \in Workers :
          (pass[w].pc = "idle" /\ pass'[w].pc # "idle") =>
             pass'[w].name \in queue

=============================================================================
